---- MODULE Spec2Model ----
(***************************************************************************)
(* Retrieval-and-scoring subsystem of the humanoid robotics RAG pipeline.  *)
(*                                                                         *)
(*   VectorStorage.search / validate_metadata / store_chunks               *)
(*       src/Rag_Chatbot_Deployment/src/storage/vector_storage.py          *)
(*   RetrievalService.retrieve_context                                     *)
(*       src/backend/src/services/retrieval_service.py                     *)
(*   RetrievedContext                                                      *)
(*       src/backend/src/models/agent_models.py                            *)
(*   AIAgentService.process_query / _calculate_confidence                  *)
(*       src/Rag_Chatbot_Deployment/src/services/ai_agent_service.py       *)
(*   query_agent / health_check                                            *)
(*       src/Rag_Chatbot_Deployment/src/api/agent_endpoint.py              *)
(*   ContentExtractor.extract_content_batch                                *)
(*       src/backend/huggingface_backend/Rag_Chatbot_Deployment/src/       *)
(*       extraction/content_extractor.py                                   *)
(*                                                                         *)
(* Specifications: Spec (retrieve_context against sample indexes),         *)
(* SpecShapes (one hit of any shape), SpecIndex (any client behaviour),    *)
(* SpecResponse (any shape of the index response), SpecRank (term          *)
(* matching and ordering), SpecPair (two retrieve_context calls in         *)
(* flight), SpecVM (validate_metadata alone), SpecAgent (POST /query),     *)
(* SpecConf (_calculate_confidence alone), SpecHealth (GET /health),       *)
(* SpecExtract (extract_content_batch), SpecStore (store_chunks).          *)
(*                                                                         *)
(* Python values are tagged records (field t names the Python type).       *)
(* Strings are sequences of one-character strings, so that lower(),        *)
(* split(), strip(), startswith() and the substring test are computed.     *)
(* Scores are fixed-point numbers in hundredths (ScoreOne is 1.0); every   *)
(* raw score of the model is a multiple of 0.05, so that the boost         *)
(* score * (1.0 + 0.2 * m) is exact.  Rounding of IEEE doubles, NaN and    *)
(* infinities are not represented.                                         *)
(***************************************************************************)
EXTENDS Integers, Sequences, FiniteSets, TLC

VARIABLES
    pc,              \* position of the retrieve_context (or direct) call
    query,           \* retrieve_context argument: the query text
    top_k,           \* retrieve_context argument
    min_score,       \* retrieve_context argument (hundredths)
    collection,      \* hits the index holds for the query, nearest first
    search_results,  \* raw response of the index-search call
    results,         \* list returned by VectorStorage.search
    retrieved,       \* list returned by retrieve_context
    scored,          \* the hits as processed by the loop of search, in response order
    error,           \* exception leaving retrieve_context, "none" if none
    cause,           \* what raised inside retrieve_context's try block
    vm_input,        \* argument of a direct validate_metadata call
    vm_output,       \* its outcome
    client,          \* what each index-search method of the Qdrant client does
    calls,           \* the collaborator calls made so far, in order
    last_exception,  \* local variable of search: the last exception caught
    request,         \* body of the POST /query request
    stage,           \* position of query_agent / process_query
    args,            \* arguments query_agent passes to process_query
    retrievals,      \* the retrieve_context calls process_query has made
    contexts,        \* contexts handed to _calculate_confidence / the LLM
    confidence,      \* value returned by _calculate_confidence / of the response
    http,            \* status code of the HTTP response, 0 while there is none
    llm_calls,       \* number of chat-completion calls made
    health,          \* body of the GET /health response
    sources,         \* sources of the AgentResponse: the distinct URLs
    other,           \* frame of a second retrieve_context call, suspended
    issued,          \* the arguments each of the two calls was issued with
    extract_pc,      \* position of extract_content_batch
    urls,            \* extract_content_batch argument: the list of URLs
    tasks,           \* state of each limited_extract task, in list order
    semaphore,       \* value of the asyncio.Semaphore
    fetches,         \* number of session.get calls made, by position in urls
    gathered,        \* 'results' of asyncio.gather, by position in urls
    content_chunks,  \* list returned by extract_content_batch
    store_pc,        \* position of store_chunks
    embedded_chunks, \* store_chunks argument: the list of embedded chunks
    points,          \* the PointStruct built for each chunk, in list order
    batch_start,     \* loop variable i of the upload loop
    upserts,         \* the batches client.upsert has been called with
    slept            \* number of inter-batch delays that have elapsed

vars == <<pc, query, top_k, min_score, collection, search_results, results,
          retrieved, scored, error, cause, vm_input, vm_output, client, calls,
          last_exception, request, stage, args, retrievals, contexts,
          confidence, http, llm_calls, health, sources, other, issued,
          extract_pc, urls, tasks, semaphore, fetches, gathered,
          content_chunks, store_pc, embedded_chunks, points, batch_start,
          upserts, slept>>

\* the variables of the HTTP endpoints and of process_query
agent_vars == <<request, stage, args, retrievals, contexts, confidence, http,
                llm_calls, health>>

\* the variables of a second, concurrent retrieve_context call
pair_vars == <<other, issued>>

\* the variables of the offline ingestion: extract_content_batch, store_chunks
extract_vars == <<extract_pc, urls, tasks, semaphore, fetches, gathered,
                  content_chunks>>
store_vars == <<store_pc, embedded_chunks, points, batch_start, upserts,
                slept>>
ingest_vars == <<extract_vars, store_vars>>

----------------------------------------------------------------------------
(* Python values *)

PyStr(s)   == [t |-> "str", s |-> s]
PyFloat(n) == [t |-> "float", n |-> n]
PyInt(i)   == [t |-> "int", i |-> i]
PyNone     == [t |-> "none"]
PyList(xs) == [t |-> "list", xs |-> xs]
PyTuple(xs) == [t |-> "tuple", xs |-> xs]
PyDict(d)  == [t |-> "dict", d |-> d]
PySet      == [t |-> "set"]
PyObj(a)   == [t |-> "obj", a |-> a]

EmptyDict == PyDict(<<>>)
EmptyStr  == PyStr(<<>>)

\* an operation either returns a value or raises an exception
Ok(v)    == [raised |-> FALSE, val |-> v]
Raise(e) == [raised |-> TRUE, exc |-> e]

IsStr(x)   == x.t = "str"
IsDict(x)  == x.t = "dict"
IsList(x)  == x.t = "list"
IsTuple(x) == x.t = "tuple"
\* isinstance(x, int)
IsInt(x)   == x.t = "int"
\* isinstance(x, (int, float))
IsNumber(x) == x.t \in {"int", "float"}

\* hasattr(x, '__getitem__')
HasGetItem(x) == x.t \in {"dict", "list", "tuple", "str"}
\* hasattr(x, name) for the attributes the code probes
HasAttr(x, name) == x.t = "obj" /\ name \in DOMAIN x.a
\* getattr(x, name, default)
GetAttr(x, name, default) == IF HasAttr(x, name) THEN x.a[name] ELSE default
\* d.get(key, default) on a dict
DictGet(x, key, default) == IF key \in DOMAIN x.d THEN x.d[key] ELSE default
\* len(x)
PyLen(x) == CASE x.t = "str" -> Len(x.s)
              [] x.t \in {"list", "tuple"} -> Len(x.xs)
              [] x.t = "dict" -> Cardinality(DOMAIN x.d)
              [] OTHER -> 0
HasLen(x) == x.t \in {"str", "list", "tuple", "dict", "set"}
\* bool(x)
Truthy(x) == CASE x.t = "none" -> FALSE
               [] x.t = "str" -> Len(x.s) > 0
               [] x.t \in {"list", "tuple"} -> Len(x.xs) > 0
               [] x.t = "dict" -> DOMAIN x.d # {}
               [] x.t = "int" -> x.i # 0
               [] x.t = "float" -> x.n # 0
               [] x.t = "set" -> FALSE
               [] OTHER -> TRUE

----------------------------------------------------------------------------
(* Strings *)

Upper == <<"A","B","C","D","E","F","G","H","I","J","K","L","M",
           "N","O","P","Q","R","S","T","U","V","W","X","Y","Z">>
LowerLetters == <<"a","b","c","d","e","f","g","h","i","j","k","l","m",
                  "n","o","p","q","r","s","t","u","v","w","x","y","z">>

LowerChar(c) ==
    IF \E i \in DOMAIN Upper : Upper[i] = c
    THEN LowerLetters[CHOOSE i \in DOMAIN Upper : Upper[i] = c]
    ELSE c

\* str.lower()
Lower(s) == [i \in DOMAIN s |-> LowerChar(s[i])]

\* str.startswith(p)
StartsWith(s, p) == Len(s) >= Len(p) /\ SubSeq(s, 1, Len(p)) = p

\* the substring test: t in s
Contains(s, t) ==
    \E i \in 1..(Len(s) + 1) :
        i + Len(t) - 1 <= Len(s) /\ SubSeq(s, i, i + Len(t) - 1) = t

Whitespace == {" "}

\* str.split(): the maximal runs of non-whitespace characters
RECURSIVE SplitFrom(_, _, _)
SplitFrom(s, i, cur) ==
    IF i > Len(s)
    THEN IF cur = <<>> THEN <<>> ELSE <<cur>>
    ELSE IF s[i] \in Whitespace
         THEN IF cur = <<>> THEN SplitFrom(s, i + 1, <<>>)
              ELSE <<cur>> \o SplitFrom(s, i + 1, <<>>)
         ELSE SplitFrom(s, i + 1, Append(cur, s[i]))
Split(s) == SplitFrom(s, 1, <<>>)

\* str.strip(chars)
RECURSIVE LStrip(_, _)
LStrip(s, chars) ==
    IF s # <<>> /\ Head(s) \in chars THEN LStrip(Tail(s), chars) ELSE s
RECURSIVE RStrip(_, _)
RStrip(s, chars) ==
    IF s # <<>> /\ s[Len(s)] \in chars
    THEN RStrip(SubSeq(s, 1, Len(s) - 1), chars) ELSE s
Strip(s, chars) == RStrip(LStrip(s, chars), chars)

\* str.strip() is non-empty
NonBlank(s) == Strip(s, Whitespace) # <<>>

----------------------------------------------------------------------------
(* Program constants *)

\* 1.0 as a score: ge=0.0, le=1.0 on RetrievedContext.score, and the cap
ScoreOne == 100
\* limit*2: the number of candidates requested is twice the limit
OverFetch == 2
\* boost of 20% (0.2) per matched term, in hundredths
BoostStep == 20
\* len(term) > 2
MinTermLen == 2
\* content preview: [:200] + '...'
PreviewLen == 200
\* len(result['title']) > 500
TitleMaxLen == 500
\* len(result['content']) < 10
ContentMinLen == 10
\* top_k < 1 or top_k > 20
TopKMin == 1
TopKMax == 20

Punctuation == {"'", "\"", ".", ",", "!", "?", "(", ")", "[", "]", "{", "}"}
UrlPrefixes == { <<"h","t","t","p",":","/","/">>,
                 <<"h","t","t","p","s",":","/","/">>,
                 <<"/">>, <<"#">>,
                 <<"m","a","i","l","t","o",":">>,
                 <<"t","e","l",":">> }

Min(a, b) == IF a < b THEN a ELSE b

----------------------------------------------------------------------------
(* VectorStorage.search: normalisation of one raw hit *)

\* query_terms = [term.strip(...) for term in query_lower.split() if len(term) > 2]
SelectLong(terms) == SelectSeq(terms, LAMBDA term : Len(term) > MinTermLen)
query_terms(q) ==
    LET long == SelectLong(Split(Lower(q)))
    IN  [i \in DOMAIN long |-> Strip(long[i], Punctuation)]


\* mutant of PayloadDict: the str case is missing, the payload is kept
PayloadDictKeepsStr(raw_payload) ==
    CASE raw_payload.t \in {"dict", "str"} -> raw_payload
      [] OTHER -> IF raw_payload.t = "obj" THEN PyDict(raw_payload.a)
                  ELSE PyDict(<<>>)

\* "Ensure payload is always a dictionary": dict as is, str -> {},
\* anything else -> its __dict__ when it has one, else {}
PayloadDict(raw_payload) ==
    CASE IsDict(raw_payload) -> raw_payload
      [] IsStr(raw_payload)  -> EmptyDict
      [] OTHER -> IF raw_payload.t = "obj" THEN PyDict(raw_payload.a)
                  ELSE EmptyDict

\* the four branches on the shape of a hit: (raw_payload, score) or raises.
\* The 'except AttributeError' path of the score-attribute branch needs an
\* attribute that exists and fails when read; the hits of the model have
\* plain attributes, so result.score is read as it is.
Extract(result) ==
    IF IsTuple(result)
    THEN IF Len(result.xs) = 2
         THEN Ok([raw_payload |-> result.xs[1], score |-> result.xs[2]])
         ELSE Ok([raw_payload |-> IF Len(result.xs) > 0 THEN result.xs[1]
                                  ELSE EmptyDict,
                  score |-> IF Len(result.xs) > 1 THEN result.xs[2]
                            ELSE PyFloat(0)])
    ELSE IF HasGetItem(result) /\ ~IsStr(result)
    THEN IF IsDict(result)
         THEN Ok([raw_payload |-> DictGet(result, "payload", result),
                  score |-> DictGet(result, "score", PyFloat(0))])
         ELSE Raise("AttributeError")   \* a list has no .get
    ELSE IF HasAttr(result, "score")
    THEN Ok([raw_payload |-> GetAttr(result, "payload", EmptyDict),
             score |-> result.a["score"]])
    ELSE Ok([raw_payload |-> GetAttr(result, "payload", EmptyDict),
             score |-> GetAttr(result, "score",
                         GetAttr(result, "score_",
                           GetAttr(result, "similarity", PyFloat(0))))])

Digits == <<"0","1","2","3","4","5","6","7","8","9">>
IsDigit(c) == \E i \in DOMAIN Digits : Digits[i] = c
DigitVal(c) == (CHOOSE i \in DOMAIN Digits : Digits[i] = c) - 1

\* float(str) for the decimal forms d, d.d and d.dd; ValueError otherwise
ParseFloat(s) ==
    CASE Len(s) = 1 /\ IsDigit(s[1]) -> Ok(100 * DigitVal(s[1]))
      [] Len(s) = 3 /\ IsDigit(s[1]) /\ s[2] = "." /\ IsDigit(s[3]) ->
            Ok(100 * DigitVal(s[1]) + 10 * DigitVal(s[3]))
      [] Len(s) = 4 /\ IsDigit(s[1]) /\ s[2] = "." /\ IsDigit(s[3])
                    /\ IsDigit(s[4]) ->
            Ok(100 * DigitVal(s[1]) + 10 * DigitVal(s[3]) + DigitVal(s[4]))
      [] OTHER -> Raise("ValueError")

\* float(x), in hundredths
FloatOf(x) ==
    CASE x.t = "float" -> Ok(x.n)
      [] x.t = "int"   -> Ok(100 * x.i)
      [] x.t = "str"   -> ParseFloat(x.s)
      [] OTHER         -> Raise("TypeError")


\* mutant of Unwrap: the list case is missing
UnwrapTupleOnly(score) ==
    IF score.t = "tuple" /\ Len(score.xs) > 0
    THEN IF score.xs[1].t \in {"int", "float"} THEN score.xs[1]
         ELSE PyFloat(0)
    ELSE IF score.t \in {"set", "dict"} THEN PyFloat(0)
    ELSE score

\* the "additional safety check" on a tuple, list, set or dict score
Unwrap(score) ==
    IF IsTuple(score) /\ Len(score.xs) > 0
    THEN IF IsNumber(score.xs[1]) THEN score.xs[1] ELSE PyFloat(0)
    ELSE IF IsList(score) /\ Len(score.xs) > 0
    THEN IF IsNumber(score.xs[1]) THEN score.xs[1] ELSE PyFloat(0)
    ELSE IF score.t \in {"list", "set", "dict"} THEN PyFloat(0)
    ELSE score

\* score coercion: unwrap, then float(score), 0.0 on TypeError/ValueError
CoerceScore(score) ==
    LET f == FloatOf(Unwrap(score))
    IN  IF f.raised THEN 0 ELSE f.val

\* matched_terms: one count per element of query_terms found in content or title
RECURSIVE matched_terms(_, _, _)
matched_terms(terms, content_lower, title_lower) ==
    IF terms = <<>> THEN 0
    ELSE (IF Contains(content_lower, Head(terms))
             \/ Contains(title_lower, Head(terms)) THEN 1 ELSE 0)
         + matched_terms(Tail(terms), content_lower, title_lower)


\* mutant of boost_factor: one 20% step whatever the number of matched terms
boost_factor_flat(m) == ScoreOne + BoostStep

\* boost_factor = 1.0 + matched_terms * 0.2, in hundredths
boost_factor(m) == ScoreOne + m * BoostStep

\* score = min(score * boost_factor, 1.0) when matched_terms > 0
Boosted(score, m) ==
    IF m > 0 THEN Min((score * boost_factor(m)) \div ScoreOne, ScoreOne)
    ELSE score

\* payload.get('content', '')[:200] + '...' if longer than 200
Preview(content) ==
    IF Len(content) > PreviewLen
    THEN SubSeq(content, 1, PreviewLen) \o <<".", ".", ".">>
    ELSE content

----------------------------------------------------------------------------
(* VectorStorage.validate_metadata *)

required_result_fields == <<"score", "payload", "url", "title", "content">>
required_payload_fields ==
    <<"url", "title", "content", "headings", "chunk_index",
      "source_document", "metadata">>

\* the state of validation_result['valid'] and ['errors'] after a check
NoFinding == [valid |-> TRUE, errors |-> <<>>]

\* mutant of Finding: the error is appended, valid is left as it was
FindingKeepsValid(msg, field) ==
    [valid |-> TRUE, errors |-> << [msg |-> msg, field |-> field] >>]

\* validation_result['valid'] = False; validation_result['errors'].append(...)
Finding(msg, field) ==
    [valid |-> FALSE, errors |-> << [msg |-> msg, field |-> field] >>]
Join(a, b) == [valid |-> a.valid /\ b.valid, errors |-> a.errors \o b.errors]

\* the loop over required_result_fields
RECURSIVE ResultFieldsFrom(_, _)
ResultFieldsFrom(result, i) ==
    IF i > Len(required_result_fields) THEN NoFinding
    ELSE Join(IF required_result_fields[i] \notin DOMAIN result.d
              THEN Finding("Missing required field", required_result_fields[i])
              ELSE NoFinding,
              ResultFieldsFrom(result, i + 1))

\* the check of one required payload field
PayloadField(payload, field) ==
    IF field \notin DOMAIN payload.d
    THEN Finding("Missing required payload field", field)
    ELSE LET value == payload.d[field]
         IN  CASE field \in {"url", "title", "content", "source_document"} ->
                    IF ~IsStr(value) THEN Finding("must be a string", field)
                    ELSE NoFinding
               [] field = "headings" ->
                    IF ~IsList(value) THEN Finding("must be a list", field)
                    ELSE NoFinding
               [] field = "chunk_index" ->
                    IF ~IsInt(value) THEN Finding("must be an integer", field)
                    ELSE NoFinding
               [] field = "metadata" ->
                    IF ~IsDict(value) THEN Finding("must be a dictionary", field)
                    ELSE NoFinding

RECURSIVE PayloadFieldsFrom(_, _)
PayloadFieldsFrom(payload, i) ==
    IF i > Len(required_payload_fields) THEN NoFinding
    ELSE Join(PayloadField(payload, required_payload_fields[i]),
              PayloadFieldsFrom(payload, i + 1))

\* payload = result.get('payload', {}) and the checks on it
PayloadCheck(result) ==
    LET payload == DictGet(result, "payload", EmptyDict)
    IN  IF ~IsDict(payload)
        THEN Finding("Payload must be a dictionary", "payload")
        ELSE PayloadFieldsFrom(payload, 1)

\* the three "additional semantic validations"; each either yields its
\* warnings or raises on a value that has no startswith / len / strip
UrlWarning(result) ==
    IF "url" \in DOMAIN result.d /\ Truthy(result.d["url"])
    THEN IF ~IsStr(result.d["url"]) THEN Raise("AttributeError")
         ELSE IF \E p \in UrlPrefixes : StartsWith(result.d["url"].s, p)
              THEN Ok(<<>>)
              ELSE Ok(<<"URL may not be properly formatted">>)
    ELSE Ok(<<>>)

TitleWarning(result) ==
    IF "title" \in DOMAIN result.d
    THEN IF ~HasLen(result.d["title"]) THEN Raise("TypeError")
         ELSE IF PyLen(result.d["title"]) > TitleMaxLen
              THEN Ok(<<"Title appears to be excessively long">>)
              ELSE Ok(<<>>)
    ELSE Ok(<<>>)

ContentWarning(result) ==
    IF "content" \in DOMAIN result.d
    THEN LET c == result.d["content"]
         IN  IF ~HasLen(c) THEN Raise("TypeError")
             ELSE IF PyLen(c) < ContentMinLen
                  THEN IF ~IsStr(c) THEN Raise("AttributeError")
                       ELSE IF NonBlank(c.s)
                            THEN Ok(<<"Content appears to be very short">>)
                            ELSE Ok(<<>>)
                  ELSE Ok(<<>>)
    ELSE Ok(<<>>)

validate_metadata(result) ==
    IF ~IsDict(result)
    THEN \* 'field not in result' / result.get fail on a non-dict
         Raise(IF result.t \in {"str", "list", "tuple"}
               THEN "AttributeError" ELSE "TypeError")
    ELSE LET checks == Join(ResultFieldsFrom(result, 1), PayloadCheck(result))
             w1 == UrlWarning(result)
             w2 == TitleWarning(result)
             w3 == ContentWarning(result)
         IN  IF w1.raised THEN w1
             ELSE IF w2.raised THEN w2
             ELSE IF w3.raised THEN w3
             ELSE Ok([valid |-> checks.valid,
                      errors |-> checks.errors,
                      warnings |-> w1.val \o w2.val \o w3.val])

----------------------------------------------------------------------------
(* VectorStorage.search: the loop over the hits, and the sort *)

\* one iteration of 'for result in search_result_items': the result_dict
\* appended to results (rec), with the intermediate values of the iteration
\* (raw score, coerced score s, matched_terms m), or the exception that
\* leaves search
ProcessHit(result, terms) ==
    LET e == Extract(result)
    IN  IF e.raised THEN e
        ELSE
        LET payload == PayloadDict(e.val.raw_payload)
            score   == CoerceScore(e.val.score)
        IN  \* payload.get(...) needs a dict
            IF ~IsDict(payload) THEN Raise("AttributeError")
            ELSE
            LET content == DictGet(payload, "content", EmptyStr)
                title   == DictGet(payload, "title", EmptyStr)
            IN  \* payload.get('content', '').lower() / .get('title', '').lower()
            IF ~IsStr(content) \/ ~IsStr(title) THEN Raise("AttributeError")
            ELSE
            LET m == matched_terms(terms, Lower(content.s), Lower(title.s))
                result_dict ==
                    PyDict([score   |-> PyFloat(Boosted(score, m)),
                            payload |-> payload,
                            url     |-> DictGet(payload, "url", EmptyStr),
                            title   |-> title,
                            content |-> PyStr(Preview(content.s))])
                validation == validate_metadata(result_dict)
            IN  IF validation.raised THEN validation
                ELSE Ok([rec |-> PyDict([score   |-> result_dict.d.score,
                                         payload |-> payload,
                                         url     |-> result_dict.d.url,
                                         title   |-> title,
                                         content |-> result_dict.d.content,
                                         metadata_validation |-> validation.val]),
                         raw_payload |-> e.val.raw_payload,
                         raw_score |-> e.val.score,
                         s |-> score,
                         m |-> m])

RECURSIVE ProcessHits(_, _)
ProcessHits(items, terms) ==
    IF items = <<>> THEN Ok(<<>>)
    ELSE LET first == ProcessHit(Head(items), terms)
         IN  IF first.raised THEN first
             ELSE LET rest == ProcessHits(Tail(items), terms)
                  IN  IF rest.raised THEN rest
                      ELSE Ok(<<first.val>> \o rest.val)

ScoreOf(r) == r.d.score.n

\* mutant of StaysAhead: a record is placed ahead of those of equal score
StaysAheadOnlyIfHigher(a, r) == ScoreOf(a) > ScoreOf(r)

\* list.sort is stable, also with reverse=True: a record placed earlier
\* stays ahead of a later record r unless r has the higher score
StaysAhead(a, r) == ScoreOf(a) >= ScoreOf(r)

\* results.sort(key=lambda x: x['score'], reverse=True): stable, descending
RECURSIVE InsertDesc(_, _)
InsertDesc(sorted, r) ==
    IF sorted = <<>> THEN <<r>>
    ELSE IF StaysAhead(Head(sorted), r)
         THEN <<Head(sorted)>> \o InsertDesc(Tail(sorted), r)
         ELSE <<r>> \o sorted
RECURSIVE SortFrom(_, _, _)
SortFrom(rs, i, acc) ==
    IF i > Len(rs) THEN acc ELSE SortFrom(rs, i + 1, InsertDesc(acc, rs[i]))

\* mutant of SortDesc: the results are returned in response order
SortDescSkipped(rs) == rs

SortDesc(rs) == SortFrom(rs, 1, <<>>)

\* mutant of IterationTarget: .points is preferred to .results
IterationTargetPointsFirst(response) ==
    IF HasAttr(response, "points") THEN response.a["points"]
    ELSE IF HasAttr(response, "results") THEN response.a["results"]
    ELSE response

\* the iteration target: .results, else .points, else the response itself
IterationTarget(response) ==
    IF HasAttr(response, "results") THEN response.a["results"]
    ELSE IF HasAttr(response, "points") THEN response.a["points"]
    ELSE response

\* the loop of VectorStorage.search over the raw response: the list of
\* processed hits in response order, or the exception
search_loop(q, response) ==
    LET items == IterationTarget(response)
    IN  IF items.t \notin {"list", "tuple"} THEN Raise("TypeError")
        ELSE ProcessHits(items.xs, query_terms(q))

Records(processed) == [i \in DOMAIN processed |-> processed[i].rec]

----------------------------------------------------------------------------
(* RetrievalService.retrieve_context *)

\* mutant of ValidParams: the upper limit of top_k is not checked
ValidParamsNoUpper(q, k, ms) ==
    /\ NonBlank(q)
    /\ ~(k < TopKMin)
    /\ ~(ms < 0 \/ ms > ScoreOne)

\* if not query or not query.strip() / top_k / min_score range checks
ValidParams(q, k, ms) ==
    /\ NonBlank(q)
    /\ ~(k < TopKMin \/ k > TopKMax)
    /\ ~(ms < 0 \/ ms > ScoreOne)

\* mutant of filtered_results: the threshold is not applied
filtered_results_all(rs, ms) == rs

\* filtered_results: result.get('score', 0) >= min_score
filtered_results(rs, ms) == SelectSeq(rs, LAMBDA r : ScoreOf(r) >= ms)

IsStrList(x) == IsList(x) /\ \A i \in DOMAIN x.xs : IsStr(x.xs[i])

\* RetrievedContext(...): the field constraints of the pydantic model
RetrievedContext(r) ==
    LET payload == r.d.payload
        ctx == [score           |-> ScoreOf(r),
                content         |-> DictGet(payload, "content", EmptyStr),
                url             |-> DictGet(payload, "url", EmptyStr),
                title           |-> DictGet(payload, "title", EmptyStr),
                headings        |-> DictGet(payload, "headings", PyList(<<>>)),
                chunk_index     |-> DictGet(payload, "chunk_index", PyInt(0)),
                source_document |-> DictGet(payload, "source_document", EmptyStr),
                metadata        |-> DictGet(payload, "metadata", EmptyDict)]
    IN  IF /\ ctx.score >= 0 /\ ctx.score <= ScoreOne
           /\ IsStr(ctx.content) /\ IsStr(ctx.url) /\ IsStr(ctx.title)
           /\ IsStrList(ctx.headings)
           /\ IsInt(ctx.chunk_index)
           /\ IsStr(ctx.source_document)
           /\ IsDict(ctx.metadata)
        THEN Ok(ctx)
        ELSE Raise("ValidationError")

RECURSIVE Contexts(_)
Contexts(rs) ==
    IF rs = <<>> THEN Ok(<<>>)
    ELSE LET first == RetrievedContext(Head(rs))
         IN  IF first.raised THEN first
             ELSE LET rest == Contexts(Tail(rs))
                  IN  IF rest.raised THEN rest
                      ELSE Ok(<<first.val>> \o rest.val)

\* retrieve_context after search returned rs: filter, convert, return
retrieved_contexts(rs, ms) == Contexts(filtered_results(rs, ms))

----------------------------------------------------------------------------
(* Inputs *)

\* longest index response of the model
MaxHits == 3
\* largest valid top_k of the model
MaxTopK == 2

\* "ros architecture", "what gait", " ", ""
QRosArch == <<"r","o","s"," ","a","r","c","h","i","t","e","c","t","u","r","e">>
QGait    == <<"w","h","a","t"," ","g","a","i","t">>
QBlank   == <<" ">>
QEmpty   == <<>>
Queries  == {QRosArch, QGait, QBlank, QEmpty}

SRos2  == <<"R","O","S"," ","2"," ","a","r","c","h","i","t","e","c","t","u","r","e"," ","u","s","e","s"," ","D","D","S">>
SRos   == <<"R","O","S">>
SDds   == <<"D","D","S"," ","m","i","d","d","l","e","w","a","r","e">>
SWalk  == <<"B","i","p","e","d","a","l"," ","w","a","l","k","i","n","g"," ","b","a","s","i","c","s">>
SBook  == <<"B","o","o","k">>
SUrl   == <<"h","t","t","p","s",":","/","/","e">>
SDoc   == <<"d","o","c">>
SNotADict == <<"n","o","t","-","a","-","d","i","c","t">>

Payload(url, title, content, headings) ==
    PyDict([url |-> url, title |-> title, content |-> content,
            headings |-> headings, chunk_index |-> PyInt(0),
            source_document |-> PyStr(SDoc), metadata |-> EmptyDict])

\* the payload of Scenario A, stored with the full schema
PGood == Payload(PyStr(SUrl), PyStr(SRos), PyStr(SRos2), PyList(<<PyStr(SRos)>>))
\* matches "ros" in its title only
PDds  == Payload(PyStr(SUrl), PyStr(SRos), PyStr(SDds), PyList(<<>>))
\* matches no term of the queries
PBook == Payload(PyStr(SUrl), PyStr(SBook), PyStr(SWalk), PyList(<<>>))
\* fields missing
PPartial == PyDict([content |-> PyStr(SRos2), title |-> PyStr(SRos)])
\* fields of the wrong type
PNoneContent == Payload(PyStr(SUrl), PyStr(SRos), PyNone, PyList(<<>>))
PUrlInt  == Payload(PyInt(123), PyStr(SRos), PyStr(SRos2), PyList(<<>>))
PHeadStr == Payload(PyStr(SUrl), PyStr(SRos), PyStr(SRos2), PyStr(SRos))
\* an object whose __dict__ holds the fields
PObject  == PyObj([content |-> PyStr(SRos2), title |-> PyStr(SRos)])

\* a negative chunk_index; a heading that is not a string
PNegIndex  == PyDict([PGood.d EXCEPT !["chunk_index"] = PyInt(-1)])
PHeadMixed == PyDict([PGood.d EXCEPT
                        !["headings"] = PyList(<<PyStr(SRos), PyInt(3)>>)])

RawPayloads ==
    {PGood, PDds, PBook, PPartial, PNoneContent, PUrlInt, PHeadStr, PObject,
     EmptyDict, PyStr(SNotADict), PyNone, PyInt(7)}

RawScores ==
    {PyFloat(40), PyFloat(90), PyFloat(150), PyFloat(-20), PyFloat(0), PyInt(1),
     PyList(<<PyFloat(70), PyStr(<<"x">>)>>),
     PyList(<<PyStr(<<"x">>), PyFloat(70)>>),
     PyList(<<PyStr(<<"x">>), PyStr(<<"y">>)>>),
     PyList(<<>>),
     PyTuple(<<PyFloat(70)>>),
     PyTuple(<<PyStr(<<"x">>), PyFloat(70)>>),
     PyTuple(<<>>),
     EmptyDict, PySet, PyNone,
     PyStr(<<"0",".","5">>), PyStr(<<"x">>)}

\* the four supported shapes of a hit
Shapes == {"pair", "mapping", "attr", "score_", "similarity"}
Hit(shape, payload, score) ==
    CASE shape = "pair"    -> PyTuple(<<payload, score>>)
      [] shape = "mapping" -> PyDict([payload |-> payload, score |-> score])
      [] shape = "attr"    -> PyObj([payload |-> payload, score |-> score])
      [] shape = "score_"  -> PyObj([payload |-> payload, score_ |-> score])
      [] shape = "similarity" ->
            PyObj([payload |-> payload, similarity |-> score])

ShapedHits ==
    {Hit(sh, p, sc) : sh \in Shapes, p \in RawPayloads, sc \in RawScores}
    \cup {PyObj([id |-> PyInt(1)]),                        \* exposes neither
          PyTuple(<<>>), PyTuple(<<PGood>>),
          PyTuple(<<PGood, PyFloat(40), PyInt(1)>>),
          PyDict([score |-> PyFloat(40), content |-> PyStr(SRos2)])}

\* hits of a well-behaved index, and one score above 1.0
SampleHits ==
    {Hit("attr", PGood, PyFloat(40)),
     Hit("pair", PDds, PyFloat(90)),
     Hit("mapping", PPartial, PyFloat(70)),
     Hit("attr", PBook, PyFloat(150))}

RECURSIVE SeqsUpTo(_, _)
SeqsUpTo(S, n) ==
    IF n = 0 THEN {<<>>}
    ELSE LET shorter == SeqsUpTo(S, n - 1)
         IN  shorter \cup {Append(q, x) : q \in {r \in shorter : Len(r) = n - 1},
                                          x \in S}

\* what a method of the client does when called: it returns a response,
\* raises (AttributeError: the client has no such method), or returns None
Outcomes == {"returns", "AttributeError", "Exception", "None"}
Clients  == [{"search", "search_points", "query_points"} -> Outcomes]
AllReturn == [v \in {"search", "search_points", "query_points"} |-> "returns"]
\* a client without search, whose search_points yields None
OlderClient == [search |-> "AttributeError", search_points |-> "None",
                query_points |-> "returns"]
\* an index that is down
AllRaise == [v \in {"search", "search_points", "query_points"} |-> "Exception"]
SampleClients == {AllReturn, OlderClient, AllRaise}
\* a client whose methods answer out of shape
OddClient == [v \in {"search", "search_points", "query_points"} |-> "malformed"]

TopKs     == (0..MaxTopK) \cup {TopKMax + 1}
MinScores == {-10, 0, 50, 90, 110}

Pending == [pending |-> TRUE]

----------------------------------------------------------------------------
(* retrieve_context as a state machine: its suspension points are the
   embedding call and the index-search call inside VectorStorage.search *)

NoCall == /\ vm_input = PyNone
          /\ vm_output = Pending

NoRequest == [none |-> TRUE]
NoArgs == [none |-> TRUE]
NoHealth == [none |-> TRUE]
NoOther == [none |-> TRUE]

\* there is no second call
NoPair == /\ other = NoOther
          /\ issued = NoArgs

\* no ingestion is running
NoExtract == /\ extract_pc = "none"
             /\ urls = <<>>
             /\ tasks = <<>>
             /\ semaphore = 0
             /\ fetches = <<>>
             /\ gathered = <<>>
             /\ content_chunks = <<>>
NoStore == /\ store_pc = "none"
           /\ embedded_chunks = <<>>
           /\ points = <<>>
           /\ batch_start = 0
           /\ upserts = <<>>
           /\ slept = 0
NoIngest == /\ NoExtract
            /\ NoStore

\* no HTTP request is being served: retrieve_context is called directly
NoAgent == /\ request = NoRequest
           /\ stage = "none"
           /\ args = NoArgs
           /\ retrievals = <<>>
           /\ contexts = <<>>
           /\ confidence = 0
           /\ http = 0
           /\ llm_calls = 0
           /\ health = NoHealth
           /\ sources = {}

\* the state in which a retrieve_context call starts
Started == /\ pc = "start"
           /\ search_results = PyNone
           /\ calls = <<>>
           /\ last_exception = "none"
           /\ results = <<>>
           /\ retrieved = <<>>
           /\ scored = <<>>
           /\ error = "none"
           /\ cause = "none"

Fresh == /\ Started
         /\ NoCall
         /\ NoAgent
         /\ NoPair
         /\ NoIngest

\* any query against an index holding up to MaxHits hits
Init == /\ query \in Queries
        /\ top_k \in TopKs
        /\ min_score \in MinScores
        /\ collection \in SeqsUpTo(SampleHits, MaxHits)
        /\ client \in SampleClients
        /\ Fresh

\* a valid query against an index holding one hit of any shape
InitShapes == /\ query \in {QRosArch, QGait}
              /\ top_k = 1
              /\ min_score \in {0, 50}
              /\ collection \in {<<h>> : h \in ShapedHits}
              /\ client \in SampleClients
              /\ Fresh

\* a query against any client: each method returns, raises or yields None
InitIndex == /\ query \in {QRosArch, QBlank}
             /\ top_k = TopKMin
             /\ min_score \in {0, 90}
             /\ collection \in {<<>>} \cup {<<h>> : h \in SampleHits}
             /\ client \in Clients
             /\ Fresh

\* lines 39-47: the parameter checks
Validate ==
    /\ pc = "start"
    /\ IF ValidParams(query, top_k, min_score)
       THEN /\ pc' = "embed"
            /\ UNCHANGED error
       ELSE /\ pc' = "raised"
            /\ error' = "ValidationError"
    /\ UNCHANGED <<query, top_k, min_score, collection, search_results,
                   results, retrieved, scored, cause, vm_input, vm_output,
                   client, calls, last_exception>>
    /\ UNCHANGED agent_vars
    /\ UNCHANGED <<sources, pair_vars, ingest_vars>>

\* co.embed(...) returns the query embedding
EmbedOk ==
    /\ pc = "embed"
    /\ pc' = "index"
    /\ calls' = Append(calls, "embed")
    /\ UNCHANGED <<query, top_k, min_score, collection, search_results,
                   results, retrieved, scored, error, cause, vm_input,
                   vm_output, client, last_exception>>
    /\ UNCHANGED agent_vars
    /\ UNCHANGED <<sources, pair_vars, ingest_vars>>

\* mutant of EmbedFail: the failure is caught inside search, which goes on to
\* the index-search call
EmbedFailSwallowed ==
    /\ pc = "embed"
    /\ pc' = "index"
    /\ cause' = "embedding"
    /\ calls' = Append(calls, "embed")
    /\ UNCHANGED <<query, top_k, min_score, collection, search_results,
                   results, retrieved, scored, error, vm_input, vm_output,
                   client, last_exception>>
    /\ UNCHANGED agent_vars
    /\ UNCHANGED <<sources, pair_vars, ingest_vars>>

\* co.embed(...) raises: search raises, retrieve_context wraps it
EmbedFail ==
    /\ pc = "embed"
    /\ pc' = "raised"
    /\ error' = "RetrievalError"
    /\ cause' = "embedding"
    /\ calls' = Append(calls, "embed")
    /\ UNCHANGED <<query, top_k, min_score, collection, search_results,
                   results, retrieved, scored, vm_input, vm_output, client,
                   last_exception>>
    /\ UNCHANGED agent_vars
    /\ UNCHANGED <<sources, pair_vars, ingest_vars>>

\* the hits the index returns for limit=limit*2
IndexHits(hits, limit) == SubSeq(hits, 1, Min(Len(hits), limit * OverFetch))

ResponseShapes == {"list", "results", "points"}
\* responses no version of the client is known to give: a tuple of hits, an
\* object with both attributes, one whose results is None, one with
\* neither attribute, a number
OddShapes == {"tuple", "both", "results_none", "bare", "scalar"}
Response(shape, hits) ==
    CASE shape = "list"    -> PyList(hits)
      [] shape = "results" -> PyObj([results |-> PyList(hits)])
      [] shape = "points"  -> PyObj([points |-> PyList(hits)])
      [] shape = "tuple"   -> PyTuple(hits)
      [] shape = "both"    -> PyObj([results |-> PyList(hits),
                                     points |-> PyList(<<>>)])
      [] shape = "results_none" -> PyObj([results |-> PyNone,
                                          points |-> PyList(hits)])
      [] shape = "bare"    -> PyObj([id |-> PyInt(1)])
      [] shape = "scalar"  -> PyInt(7)

\* the shapes a method gives: the known ones, or the odd ones when the
\* client is one that answers out of shape
ShapesOf(outcome) == IF outcome = "returns" THEN ResponseShapes ELSE OddShapes

\* mutant of Variants: query_points is tried first
VariantsNewestFirst == <<"query_points", "search_points", "search">>

\* the index-search methods, in the order search tries them
Variants == <<"search", "search_points", "query_points">>
IndexCalls(cs) == SelectSeq(cs, LAMBDA c : c # "embed")
\* the try block search has reached: the first method not yet called
Variant(cs) == Variants[Len(IndexCalls(cs)) + 1]
LastVariant(cs) == Len(IndexCalls(cs)) + 1 = Len(Variants)

\* 'if search_results is None' after a try block that left it None: the
\* next try block, or 'raise last_exception or AttributeError(...)'
NextTry(cs) == IF LastVariant(cs) THEN "raised" ELSE "index"
ErrorAfter(cs) == IF LastVariant(cs) THEN "RetrievalError" ELSE "none"
CauseAfter(cs) == IF LastVariant(cs) THEN "index" ELSE "none"

\* the method called returns a response: the later try blocks are skipped
IndexReturn ==
    /\ pc = "index"
    /\ client[Variant(calls)] \in {"returns", "malformed"}
    /\ \E shape \in ShapesOf(client[Variant(calls)]) :
          search_results' = Response(shape, IndexHits(collection, top_k))
    /\ calls' = Append(calls, Variant(calls))
    /\ pc' = "process"
    /\ UNCHANGED <<query, top_k, min_score, collection, results, retrieved,
                   scored, error, cause, vm_input, vm_output, client,
                   last_exception>>
    /\ UNCHANGED agent_vars
    /\ UNCHANGED <<sources, pair_vars, ingest_vars>>

\* the method called raises (AttributeError if the client has no such
\* method): last_exception = e
IndexFail ==
    /\ pc = "index"
    /\ client[Variant(calls)] \in {"AttributeError", "Exception"}
    /\ last_exception' = client[Variant(calls)]
    /\ calls' = Append(calls, Variant(calls))
    /\ pc' = NextTry(calls)
    /\ error' = ErrorAfter(calls)
    /\ cause' = CauseAfter(calls)
    /\ UNCHANGED <<query, top_k, min_score, collection, search_results,
                   results, retrieved, scored, vm_input, vm_output, client>>
    /\ UNCHANGED agent_vars
    /\ UNCHANGED <<sources, pair_vars, ingest_vars>>

\* the method called returns None: search_results is still None
IndexNone ==
    /\ pc = "index"
    /\ client[Variant(calls)] = "None"
    /\ calls' = Append(calls, Variant(calls))
    /\ pc' = NextTry(calls)
    /\ error' = ErrorAfter(calls)
    /\ cause' = CauseAfter(calls)
    /\ UNCHANGED <<query, top_k, min_score, collection, search_results,
                   results, retrieved, scored, vm_input, vm_output, client,
                   last_exception>>
    /\ UNCHANGED agent_vars
    /\ UNCHANGED <<sources, pair_vars, ingest_vars>>

\* the rest of search (normalise, score, validate, sort) once the index
\* call returned: what search hands to retrieve_context
search_outcome(q, response) ==
    LET loop == search_loop(q, response)
    IN  IF loop.raised
        THEN [raised |-> TRUE, exc |-> loop.exc]
        ELSE [raised |-> FALSE, scored |-> loop.val,
              results |-> SortDesc(Records(loop.val))]

\* the rest of retrieve_context (filter, convert, return); any exception
\* of the try block becomes RetrievalError
retrieve_outcome(out, ms) ==
    IF out.raised
    THEN [pc |-> "raised", error |-> "RetrievalError", cause |-> out.exc,
          results |-> <<>>, scored |-> <<>>, retrieved |-> <<>>]
    ELSE LET ctxs == retrieved_contexts(out.results, ms)
         IN  IF ctxs.raised
             THEN [pc |-> "raised", error |-> "RetrievalError",
                   cause |-> "pydantic", results |-> out.results,
                   scored |-> out.scored, retrieved |-> <<>>]
             ELSE [pc |-> "returned", error |-> "none", cause |-> "none",
                   results |-> out.results, scored |-> out.scored,
                   retrieved |-> ctxs.val]

Finish ==
    /\ pc = "process"
    /\ \E o \in {retrieve_outcome(search_outcome(query, search_results),
                                  min_score)} :
          /\ pc' = o.pc
          /\ error' = o.error
          /\ cause' = o.cause
          /\ results' = o.results
          /\ scored' = o.scored
          /\ retrieved' = o.retrieved
    /\ UNCHANGED <<query, top_k, min_score, collection, search_results,
                   vm_input, vm_output, client, calls, last_exception>>
    /\ UNCHANGED agent_vars
    /\ UNCHANGED <<sources, pair_vars, ingest_vars>>

Next == \/ Validate
        \/ EmbedOk
        \/ EmbedFail
        \/ IndexReturn
        \/ IndexFail
        \/ IndexNone
        \/ Finish

Spec == Init /\ [][Next]_vars
SpecShapes == InitShapes /\ [][Next]_vars
SpecIndex == InitIndex /\ [][Next]_vars

\* a query against an index that answers in a known or in an odd shape
InitResponse == /\ query \in {QRosArch, QGait}
                /\ top_k = TopKMin
                /\ min_score = 0
                /\ collection \in SeqsUpTo(SampleHits, OverFetch * TopKMin)
                /\ client \in SampleClients \cup {OddClient}
                /\ Fresh

SpecResponse == InitResponse /\ [][Next]_vars

\* search returned to retrieve_context (which may still fail to convert)
SearchReturned == pc = "returned" \/ (pc = "raised" /\ cause = "pydantic")

----------------------------------------------------------------------------
(* Two retrieve_context calls on the retrieval_service singleton.  The
   parameters and local variables of a call live in its own frame; the
   Qdrant client and the collection are reached through the shared
   VectorStorage object and are only read.  The running call owns the
   variables of the state machine above, the suspended one is kept in
   'other'. *)

\* the frame of the running call: parameters and locals of retrieve_context
\* and of VectorStorage.search
Locals ==
    [pc |-> pc, query |-> query, top_k |-> top_k, min_score |-> min_score,
     search_results |-> search_results, calls |-> calls,
     last_exception |-> last_exception, results |-> results,
     retrieved |-> retrieved, scored |-> scored, error |-> error,
     cause |-> cause]

\* a call that has not started yet
NewCall(q, k, ms) ==
    [pc |-> "start", query |-> q, top_k |-> k, min_score |-> ms,
     search_results |-> PyNone, calls |-> <<>>, last_exception |-> "none",
     results |-> <<>>, retrieved |-> <<>>, scored |-> <<>>, error |-> "none",
     cause |-> "none"]

Done(frame) == frame.pc \in {"returned", "raised"}

\* the points at which the running call can hand over to the other one: the
\* embedding call, an index-search call, or its own end
AtSuspensionPoint == pc \in {"embed", "index", "returned", "raised"}

\* mutant of Switch: the query text is kept on the shared service object, so
\* the resumed call goes on with the text of the call that ran last
SwitchSharedQuery ==
    /\ other # NoOther
    /\ AtSuspensionPoint
    /\ ~Done(other)
    /\ other' = Locals
    /\ issued' = [running |-> issued.suspended,
                  suspended |-> issued.running]
    /\ pc' = other.pc
    /\ top_k' = other.top_k
    /\ min_score' = other.min_score
    /\ search_results' = other.search_results
    /\ calls' = other.calls
    /\ last_exception' = other.last_exception
    /\ results' = other.results
    /\ retrieved' = other.retrieved
    /\ scored' = other.scored
    /\ error' = other.error
    /\ cause' = other.cause
    /\ UNCHANGED <<query, collection, client, vm_input, vm_output, sources>>
    /\ UNCHANGED agent_vars
    /\ UNCHANGED ingest_vars

\* the event loop runs the other call: the frame of the running call is put
\* aside and the frame of the other call is taken up where it stopped
Switch ==
    /\ other # NoOther
    /\ AtSuspensionPoint
    /\ ~Done(other)
    /\ other' = Locals
    /\ issued' = [running |-> issued.suspended,
                  suspended |-> issued.running]
    /\ pc' = other.pc
    /\ query' = other.query
    /\ top_k' = other.top_k
    /\ min_score' = other.min_score
    /\ search_results' = other.search_results
    /\ calls' = other.calls
    /\ last_exception' = other.last_exception
    /\ results' = other.results
    /\ retrieved' = other.retrieved
    /\ scored' = other.scored
    /\ error' = other.error
    /\ cause' = other.cause
    /\ UNCHANGED <<collection, client, vm_input, vm_output, sources>>
    /\ UNCHANGED agent_vars
    /\ UNCHANGED ingest_vars

\* longest index response behind the two calls
MaxPairHits == 3

PairHits == {Hit("attr", PGood, PyFloat(40)), Hit("pair", PDds, PyFloat(90))}

\* (query, top_k, min_score) of a call
PairCalls == {<<QRosArch, 1, 0>>, <<QGait, 2, 90>>, <<QBlank, 1, 0>>}

\* two calls are issued, neither has started
InitPair ==
    /\ issued \in [running : PairCalls, suspended : PairCalls]
    /\ query = issued.running[1]
    /\ top_k = issued.running[2]
    /\ min_score = issued.running[3]
    /\ other = NewCall(issued.suspended[1], issued.suspended[2],
                       issued.suspended[3])
    /\ collection \in SeqsUpTo(PairHits, MaxPairHits)
    /\ client \in SampleClients
    /\ Started
    /\ NoCall
    /\ NoAgent
    /\ NoIngest

NextPair == \/ Validate
            \/ EmbedOk
            \/ EmbedFail
            \/ IndexReturn
            \/ IndexFail
            \/ IndexNone
            \/ Finish
            \/ Switch

SpecPair == InitPair /\ [][NextPair]_vars

----------------------------------------------------------------------------
(* retrieve_context for queries with repeated, short or punctuation-only
   tokens, against hits whose final scores tie *)

\* longest index response of the ranking model
MaxRankHits == 3

\* "ros ros", "gait ...", "(a) gait"
QRosRos == <<"r","o","s"," ","r","o","s">>
QDots   == <<"g","a","i","t"," ",".",".",".">>
QParen  == <<"(","a",")"," ","g","a","i","t">>
RankQueries == {QRosArch, QRosRos, QDots, QParen}

\* under "ros architecture" the second and third hit both end at 1.0
RankHits ==
    {Hit("attr", PGood, PyFloat(40)),
     Hit("pair", PDds, PyFloat(90)),
     Hit("attr", PGood, PyFloat(90)),
     Hit("mapping", PBook, PyFloat(30))}

InitRank == /\ query \in RankQueries
            /\ top_k = 2
            /\ min_score = 0
            /\ collection \in SeqsUpTo(RankHits, MaxRankHits)
            /\ client \in SampleClients
            /\ Fresh

SpecRank == InitRank /\ [][Next]_vars

----------------------------------------------------------------------------
(* validate_metadata called directly on any result *)

Absent == [t |-> "absent"]

\* a result envelope holding the fields that are not Absent
Envelope(sc, p, u, ti, c) ==
    LET all  == [score |-> sc, payload |-> p, url |-> u, title |-> ti,
                 content |-> c]
        keys == {k \in DOMAIN all : all[k] # Absent}
    IN  PyDict([k \in keys |-> all[k]])

VMScores   == {Absent, PyFloat(80)}
VMPayloads == {Absent, PGood, PPartial, PHeadStr, PUrlInt, EmptyDict,
               PyStr(SNotADict), PyNone, PNegIndex, PHeadMixed}
VMUrls     == {Absent, PyStr(SUrl), PyStr(<<"x">>), EmptyStr, PyInt(123),
               PyNone}
VMTitles   == {Absent, PyStr(SRos), PyNone}
VMContents == {Absent, PyStr(SRos2), PyStr(SRos), EmptyStr, PyNone,
               PyList(<<>>)}

VMInputs ==
    {Envelope(sc, p, u, ti, c) :
        sc \in VMScores, p \in VMPayloads, u \in VMUrls, ti \in VMTitles,
        c \in VMContents}
    \cup {PyNone, PyStr(SRos), PyList(<<>>), PyInt(7)}

InitVM == /\ pc = "vm_call"
          /\ vm_input \in VMInputs
          /\ vm_output = Pending
          /\ query = QGait
          /\ top_k = TopKMin
          /\ min_score = 0
          /\ collection = <<>>
          /\ search_results = PyNone
          /\ results = <<>>
          /\ retrieved = <<>>
          /\ scored = <<>>
          /\ error = "none"
          /\ cause = "none"
          /\ client = AllReturn
          /\ calls = <<>>
          /\ last_exception = "none"
          /\ NoAgent
          /\ NoPair
          /\ NoIngest

CallValidate ==
    /\ pc = "vm_call"
    /\ vm_output' = validate_metadata(vm_input)
    /\ pc' = "vm_done"
    /\ UNCHANGED <<query, top_k, min_score, collection, search_results,
                   results, retrieved, scored, error, cause, vm_input, client,
                   calls, last_exception>>
    /\ UNCHANGED agent_vars
    /\ UNCHANGED <<sources, pair_vars, ingest_vars>>

NextVM == CallValidate

SpecVM == InitVM /\ [][NextVM]_vars

----------------------------------------------------------------------------
(* AIAgentService._calculate_confidence; a confidence is counted in units of
   1/ConfOne, fine enough for the average of up to eight scores to be exact *)

ConfOne == 420000
\* min(avg_score * 2, 1.0)
ScoreGain == 2
\* min(len(contexts) / 5.0, 1.0)
FullCount == 5
\* score_factor * 0.6 + count_factor * 0.4, in tenths
ScoreWeight == 6
CountWeight == 4

RECURSIVE SumScores(_)
SumScores(ctxs) ==
    IF ctxs = <<>> THEN 0 ELSE Head(ctxs).score + SumScores(Tail(ctxs))

\* sum(numeric_scores) / len(numeric_scores)
avg_score(ctxs) == (SumScores(ctxs) * (ConfOne \div ScoreOne)) \div Len(ctxs)

\* mutant of count_factor: the number of contexts is not capped
count_factor_uncapped(ctxs) == (Len(ctxs) * ConfOne) \div FullCount

score_factor(ctxs) == Min(avg_score(ctxs) * ScoreGain, ConfOne)
count_factor(ctxs) == Min((Len(ctxs) * ConfOne) \div FullCount, ConfOne)

calculate_confidence(ctxs, is_valid) ==
    IF ctxs = <<>> THEN 0
    ELSE Min((score_factor(ctxs) * ScoreWeight
                + count_factor(ctxs) * CountWeight) \div 10,
             ConfOne)

----------------------------------------------------------------------------
(* POST /query: query_agent and AIAgentService.process_query *)

\* request.top_k or 5 / request.min_score or 0.3 / request.temperature or 0.7
DefaultTopK == 5
DefaultMinScore == 30
DefaultTemperature == 70
\* min_score=0.0 of the second retrieve_context call
RelaxedMinScore == 0

Number(x) == IF x.t = "int" THEN x.i ELSE x.n
InRange(x, lo, hi) == x = PyNone \/ (Number(x) >= lo /\ Number(x) <= hi)

\* the field constraints of AgentQueryRequest
AcceptedRequest(r) ==
    /\ Len(r.query) >= 1
    /\ InRange(r.top_k, TopKMin, TopKMax)
    /\ InRange(r.min_score, 0, ScoreOne)
    /\ InRange(r.temperature, 0, ScoreOne)

\* x or default
OrDefault(x, default) == IF Truthy(x) THEN Number(x) ELSE default

\* the arguments of agent_service.process_query(...)
ProcessQueryArgs(r) ==
    [query_text  |-> r.query,
     top_k       |-> OrDefault(r.top_k, DefaultTopK),
     min_score   |-> OrDefault(r.min_score, DefaultMinScore),
     temperature |-> OrDefault(r.temperature, DefaultTemperature)]

\* a retrieve_context call of process_query and how it ended
Call(q, k, ms) ==
    [query |-> q, top_k |-> k, min_score |-> ms, outcome |-> "pending"]
Closed(rs, outcome) == [rs EXCEPT ![Len(rs)].outcome = outcome]

\* mutant of SecondCallNeeded: the threshold is relaxed after every first call
SecondCallAlways(ctxs) == TRUE

\* if not retrieved_contexts
SecondCallNeeded(ctxs) == ctxs = <<>>

\* confidence=0.1 of the fallback response, and the floor max(confidence, 0.1)
MinConfidence == ConfOne \div 10

\* the request is validated against AgentQueryRequest (422 if it fails);
\* query_agent calls process_query, which calls retrieve_context
Receive ==
    /\ stage = "received"
    /\ pc = "idle"
    /\ IF AcceptedRequest(request)
       THEN \E a \in {ProcessQueryArgs(request)} :
               /\ args' = a
               /\ retrievals' = <<Call(a.query_text, a.top_k, a.min_score)>>
               /\ query' = a.query_text
               /\ top_k' = a.top_k
               /\ min_score' = a.min_score
               /\ pc' = "start"
               /\ stage' = "first"
               /\ http' = 0
       ELSE /\ http' = 422
            /\ stage' = "done"
            /\ UNCHANGED <<args, retrievals, query, top_k, min_score, pc>>
    /\ UNCHANGED <<collection, search_results, results, retrieved, scored,
                   error, cause, vm_input, vm_output, client, calls,
                   last_exception, request, contexts, confidence, llm_calls,
                   health>>
    /\ UNCHANGED <<sources, pair_vars, ingest_vars>>

\* retrieve_context raised: 'except Exception' of process_query raises
\* AgentError, 'except AgentError' of query_agent answers 500
RetrievalRaised ==
    /\ stage \in {"first", "second"}
    /\ pc = "raised"
    /\ retrievals' = Closed(retrievals, "raised")
    /\ http' = 500
    /\ stage' = "done"
    /\ UNCHANGED <<pc, query, top_k, min_score, collection, search_results,
                   results, retrieved, scored, error, cause, vm_input,
                   vm_output, client, calls, last_exception, request, args,
                   contexts, confidence, llm_calls, health>>
    /\ UNCHANGED <<sources, pair_vars, ingest_vars>>

\* retrieve_context returned contexts: they are formatted for the LLM
ContextFound ==
    /\ stage \in {"first", "second"}
    /\ pc = "returned"
    /\ IF stage = "first" THEN ~SecondCallNeeded(retrieved)
                          ELSE retrieved # <<>>
    /\ retrievals' = Closed(retrievals, "nonempty")
    /\ contexts' = retrieved
    /\ stage' = IF stage = "first" THEN "generate" ELSE "generate_low"
    /\ UNCHANGED <<pc, query, top_k, min_score, collection, search_results,
                   results, retrieved, scored, error, cause, vm_input,
                   vm_output, client, calls, last_exception, request, args,
                   confidence, http, llm_calls, health>>
    /\ UNCHANGED <<sources, pair_vars, ingest_vars>>

\* the first call returned nothing: retrieve_context is called again with
\* the same query text and top_k and min_score=0.0
RelaxThreshold ==
    /\ stage = "first"
    /\ pc = "returned"
    /\ SecondCallNeeded(retrieved)
    /\ retrievals' = Append(Closed(retrievals, IF retrieved = <<>>
                                               THEN "empty" ELSE "nonempty"),
                            Call(args.query_text, args.top_k, RelaxedMinScore))
    /\ query' = args.query_text
    /\ top_k' = args.top_k
    /\ min_score' = RelaxedMinScore
    /\ stage' = "second"
    /\ pc' = "start"
    /\ search_results' = PyNone
    /\ calls' = <<>>
    /\ last_exception' = "none"
    /\ results' = <<>>
    /\ retrieved' = <<>>
    /\ scored' = <<>>
    /\ error' = "none"
    /\ cause' = "none"
    /\ UNCHANGED <<collection, vm_input, vm_output, client, request, args,
                   contexts, confidence, http, llm_calls, health>>
    /\ UNCHANGED <<sources, pair_vars, ingest_vars>>

\* the second call returned nothing either: the fallback response
Fallback ==
    /\ stage = "second"
    /\ pc = "returned"
    /\ retrieved = <<>>
    /\ retrievals' = Closed(retrievals, "empty")
    /\ contexts' = <<>>
    /\ sources' = {}
    /\ confidence' = MinConfidence
    /\ http' = 200
    /\ stage' = "done"
    /\ UNCHANGED <<pc, query, top_k, min_score, collection, search_results,
                   results, retrieved, scored, error, cause, vm_input,
                   vm_output, client, calls, last_exception, request, args,
                   llm_calls, health>>
    /\ UNCHANGED <<pair_vars, ingest_vars>>

\* mutant of ResponseConfidence: the floor max(confidence, 0.1) is missing
ResponseConfidenceNoFloor(ctxs, tier) ==
    IF tier = "generate_low"
    THEN calculate_confidence(ctxs, TRUE) \div 2
    ELSE calculate_confidence(ctxs, TRUE)

\* the confidence of the AgentResponse, by the tier the contexts came from
ResponseConfidence(ctxs, tier) ==
    IF tier = "generate_low"
    THEN LET halved == calculate_confidence(ctxs, TRUE) \div 2
         IN  IF halved > MinConfidence THEN halved ELSE MinConfidence
    ELSE calculate_confidence(ctxs, TRUE)

\* sources = list(set([ctx.url for ctx in contexts if ctx.url]))
Sources(ctxs) ==
    {ctxs[i].url : i \in {j \in DOMAIN ctxs : Truthy(ctxs[j].url)}}

\* the chat-completion call returned: the AgentResponse is built and
\* query_agent answers 200
LLMReturn ==
    /\ stage \in {"generate", "generate_low"}
    /\ llm_calls' = llm_calls + 1
    /\ confidence' = ResponseConfidence(contexts, stage)
    /\ sources' = Sources(contexts)
    /\ http' = 200
    /\ stage' = "done"
    /\ UNCHANGED <<pc, query, top_k, min_score, collection, search_results,
                   results, retrieved, scored, error, cause, vm_input,
                   vm_output, client, calls, last_exception, request, args,
                   retrievals, contexts, health>>
    /\ UNCHANGED <<pair_vars, ingest_vars>>

\* the chat-completion call raised: AgentError, 500
LLMFail ==
    /\ stage \in {"generate", "generate_low"}
    /\ llm_calls' = llm_calls + 1
    /\ http' = 500
    /\ stage' = "done"
    /\ UNCHANGED <<pc, query, top_k, min_score, collection, search_results,
                   results, retrieved, scored, error, cause, vm_input,
                   vm_output, client, calls, last_exception, request, args,
                   retrievals, contexts, confidence, health>>
    /\ UNCHANGED <<sources, pair_vars, ingest_vars>>

\* largest index response behind the endpoint
MaxAgentHits == 2

AgentRequests ==
    [query       : {QRosArch, QBlank, QEmpty},
     top_k       : {PyNone, PyInt(1), PyInt(2), PyInt(TopKMax + 1)},
     min_score   : {PyNone, PyFloat(0), PyFloat(90), PyFloat(110)},
     temperature : {PyNone, PyFloat(0)}]

\* the sample hits and one that is far from every query
AgentHits == SampleHits \cup {Hit("attr", PBook, PyFloat(5))}

\* a POST /query request arrives
InitAgent ==
    /\ request \in AgentRequests
    /\ stage = "received"
    /\ collection \in SeqsUpTo(AgentHits, MaxAgentHits)
    /\ client \in SampleClients
    /\ pc = "idle"
    /\ query = QEmpty
    /\ top_k = 0
    /\ min_score = 0
    /\ search_results = PyNone
    /\ calls = <<>>
    /\ last_exception = "none"
    /\ results = <<>>
    /\ retrieved = <<>>
    /\ scored = <<>>
    /\ error = "none"
    /\ cause = "none"
    /\ NoCall
    /\ args = NoArgs
    /\ retrievals = <<>>
    /\ contexts = <<>>
    /\ confidence = 0
    /\ http = 0
    /\ llm_calls = 0
    /\ health = NoHealth
    /\ sources = {}
    /\ NoPair
    /\ NoIngest

NextAgent == \/ Receive
             \/ Validate
             \/ EmbedOk
             \/ EmbedFail
             \/ IndexReturn
             \/ IndexFail
             \/ IndexNone
             \/ Finish
             \/ RetrievalRaised
             \/ ContextFound
             \/ RelaxThreshold
             \/ Fallback
             \/ LLMReturn
             \/ LLMFail

SpecAgent == InitAgent /\ [][NextAgent]_vars

----------------------------------------------------------------------------
(* _calculate_confidence called directly on any list of contexts *)

\* longest list of contexts of the model
MaxContexts == 6

\* a RetrievedContext of the given score
Ctx(score) ==
    [score |-> score, content |-> PyStr(SRos2), url |-> PyStr(SUrl),
     title |-> PyStr(SRos), headings |-> PyList(<<>>),
     chunk_index |-> PyInt(0), source_document |-> PyStr(SDoc),
     metadata |-> EmptyDict]

ConfScores == {10, 100}
ConfInputs == SeqsUpTo({Ctx(sc) : sc \in ConfScores}, MaxContexts)

InitConf == /\ pc = "conf_call"
            /\ contexts \in ConfInputs
            /\ confidence = 0
            /\ query = QGait
            /\ top_k = TopKMin
            /\ min_score = 0
            /\ collection = <<>>
            /\ search_results = PyNone
            /\ results = <<>>
            /\ retrieved = <<>>
            /\ scored = <<>>
            /\ error = "none"
            /\ cause = "none"
            /\ client = AllReturn
            /\ calls = <<>>
            /\ last_exception = "none"
            /\ NoCall
            /\ request = NoRequest
            /\ stage = "none"
            /\ args = NoArgs
            /\ retrievals = <<>>
            /\ http = 0
            /\ llm_calls = 0
            /\ health = NoHealth
            /\ sources = {}
            /\ NoPair
            /\ NoIngest

CallConfidence ==
    /\ pc = "conf_call"
    /\ \E is_valid \in BOOLEAN :
          confidence' = calculate_confidence(contexts, is_valid)
    /\ pc' = "conf_done"
    /\ UNCHANGED <<query, top_k, min_score, collection, search_results,
                   results, retrieved, scored, error, cause, vm_input,
                   vm_output, client, calls, last_exception, request, stage,
                   args, retrievals, contexts, http, llm_calls, health>>
    /\ UNCHANGED <<sources, pair_vars, ingest_vars>>

NextConf == CallConfidence

SpecConf == InitConf /\ [][NextConf]_vars

----------------------------------------------------------------------------
(* GET /health: health_check, RetrievalService.get_retrieval_stats and
   VectorStorage.verify_storage *)

\* the sample search: the three methods in order, until one returns
SampleSearchReturns(cl) ==
    \E i \in DOMAIN Variants : cl[Variants[i]] = "returns"

\* result_count of the sample search result
result_count(response) ==
    IF HasLen(response) THEN PyLen(response)
    ELSE IF HasAttr(response, "results") THEN PyLen(response.a["results"])
    ELSE IF HasAttr(response, "points") THEN PyLen(response.a["points"])
    ELSE 0

\* first_result, for result_count > 0
first_result(response) == IterationTarget(response).xs[1]

\* sample_works: the first result is of a shape search can handle
sample_works(response) ==
    IF result_count(response) > 0
    THEN LET first == first_result(response)
         IN  first # PyNone
             /\ (HasAttr(first, "score") \/ IsTuple(first) \/ HasGetItem(first))
    ELSE FALSE

\* verify_storage: any exception of get_collection or of the sample search
\* is caught and reported as a collection that does not exist
verify_storage(cl, response) ==
    IF cl["get_collection"] = "returns" /\ SampleSearchReturns(cl)
    THEN [sample_search_works |-> sample_works(response),
          collection_exists |-> TRUE]
    ELSE [sample_search_works |-> FALSE,
          collection_exists |-> FALSE]

\* get_retrieval_stats copies the two flags
get_retrieval_stats(verification) ==
    [collection_exists |-> verification.collection_exists,
     sample_search_works |-> verification.sample_search_works]

\* the HealthCheckResponse
health_check(retrieval_stats) ==
    [status |-> IF retrieval_stats.collection_exists
                   /\ retrieval_stats.sample_search_works
                THEN "healthy" ELSE "degraded",
     services |->
        [qdrant |-> IF retrieval_stats.collection_exists
                    THEN "connected" ELSE "disconnected",
         retrieval_pipeline |-> IF retrieval_stats.sample_search_works
                                THEN "operational" ELSE "error",
         openai_compatible_api |-> "available"]]

\* limit=1 of the sample search
SampleLimit == 1

HealthClients ==
    [{"get_collection", "search", "search_points", "query_points"}
        -> Outcomes]

HealthCollections ==
    {<<>>} \cup {<<h>> : h \in SampleHits}
           \cup {<<Hit("score_", PGood, PyFloat(40))>>}

InitHealth == /\ pc = "health_call"
              /\ client \in HealthClients
              /\ collection \in HealthCollections
              /\ health = NoHealth
              /\ http = 0
              /\ query = QGait
              /\ top_k = TopKMin
              /\ min_score = 0
              /\ search_results = PyNone
              /\ results = <<>>
              /\ retrieved = <<>>
              /\ scored = <<>>
              /\ error = "none"
              /\ cause = "none"
              /\ calls = <<>>
              /\ last_exception = "none"
              /\ NoCall
              /\ request = NoRequest
              /\ stage = "none"
              /\ args = NoArgs
              /\ retrievals = <<>>
              /\ contexts = <<>>
              /\ confidence = 0
              /\ llm_calls = 0
              /\ sources = {}
              /\ NoPair
              /\ NoIngest

\* GET /health is served
HealthCheck ==
    /\ pc = "health_call"
    /\ \E shape \in ResponseShapes :
          health' = health_check(get_retrieval_stats(verify_storage(client,
                        Response(shape, SubSeq(collection, 1,
                            Min(Len(collection), SampleLimit))))))
    /\ http' = 200
    /\ pc' = "health_done"
    /\ UNCHANGED <<query, top_k, min_score, collection, search_results,
                   results, retrieved, scored, error, cause, vm_input,
                   vm_output, client, calls, last_exception, request, stage,
                   args, retrievals, contexts, confidence, llm_calls>>
    /\ UNCHANGED <<sources, pair_vars, ingest_vars>>

NextHealth == HealthCheck

SpecHealth == InitHealth /\ [][NextHealth]_vars

----------------------------------------------------------------------------
(* DocusaurusExtractor.extract_content_batch.  asyncio.gather starts one
   limited_extract task per URL, in list order.  A task enters the
   semaphore, calls extract_content and leaves the semaphore; neither the
   acquire of a free semaphore nor extract_content (a blocking session.get,
   no await) hands control back to the event loop, so a task that has
   started runs to its end before the next one starts.  The coroutines of
   the first 'tasks' list (line 165) are never awaited and fetch nothing. *)

\* asyncio.Semaphore(10)
MaxConcurrent == 10

\* no retrieve_context call, no direct call and no request is there
NoRetrieval == /\ pc = "none"
               /\ query = QEmpty
               /\ top_k = 0
               /\ min_score = 0
               /\ collection = <<>>
               /\ client = AllReturn
               /\ search_results = PyNone
               /\ calls = <<>>
               /\ last_exception = "none"
               /\ results = <<>>
               /\ retrieved = <<>>
               /\ scored = <<>>
               /\ error = "none"
               /\ cause = "none"
               /\ NoCall
               /\ NoAgent
               /\ NoPair

\* longest list of URLs of the model
MaxUrls == 11

\* the URLs of a list are distinct (discover_urls builds it from a set)
UrlLists == {[i \in 1..n |-> i] : n \in 0..MaxUrls}

\* the ContentChunk extract_content builds for a page
ContentChunk(url) == [url |-> url]

\* extract_content returns a ContentChunk, or None when the page has no
\* main content or the request fails
ExtractResults(url) == {ContentChunk(url), PyNone}

\* the task the event loop runs: the first one that has not finished
Runnable(i) == /\ i \in DOMAIN tasks
               /\ tasks[i] # "done"
               /\ \A j \in 1..(i - 1) : tasks[j] = "done"

\* the tasks extract_content is running for
InProgress == {i \in DOMAIN tasks : tasks[i] = "fetching"}

\* mutant of AllFinished: the batch goes on as soon as one task has finished
SomeFinished(ts) == \E i \in DOMAIN ts : ts[i] = "done"

\* await asyncio.gather(*tasks) returns when every task has finished
AllFinished(ts) == \A i \in DOMAIN ts : ts[i] = "done"

\* the loop over results: exceptions and None are left out
RECURSIVE Chunks(_)
Chunks(rs) ==
    IF rs = <<>> THEN <<>>
    ELSE IF Head(rs) = PyNone THEN Chunks(Tail(rs))
         ELSE <<Head(rs)>> \o Chunks(Tail(rs))

InitExtract == /\ extract_pc = "start"
               /\ urls \in UrlLists
               /\ tasks = <<>>
               /\ semaphore = 0
               /\ fetches = [i \in DOMAIN urls |-> 0]
               /\ gathered = <<>>
               /\ content_chunks = <<>>
               /\ NoStore
               /\ NoRetrieval

\* semaphore = asyncio.Semaphore(10); tasks = [limited_extract(url) ...];
\* asyncio.gather schedules the tasks
CreateTasks ==
    /\ extract_pc = "start"
    /\ semaphore' = MaxConcurrent
    /\ tasks' = [i \in DOMAIN urls |-> "created"]
    /\ gathered' = [i \in DOMAIN urls |-> PyNone]
    /\ extract_pc' = "gather"
    /\ UNCHANGED <<urls, fetches, content_chunks>>

\* async with semaphore: the task enters and calls extract_content(url)
Acquire(i) ==
    /\ extract_pc = "gather"
    /\ Runnable(i)
    /\ tasks[i] = "created"
    /\ semaphore > 0
    /\ semaphore' = semaphore - 1
    /\ tasks' = [tasks EXCEPT ![i] = "fetching"]
    /\ UNCHANGED <<extract_pc, urls, fetches, gathered, content_chunks>>

\* extract_content made its session.get and returned; the task leaves the
\* semaphore and finishes with the result
Complete(i) ==
    /\ extract_pc = "gather"
    /\ Runnable(i)
    /\ tasks[i] = "fetching"
    /\ fetches' = [fetches EXCEPT ![i] = @ + 1]
    /\ \E result \in ExtractResults(urls[i]) :
          gathered' = [gathered EXCEPT ![i] = result]
    /\ semaphore' = semaphore + 1
    /\ tasks' = [tasks EXCEPT ![i] = "done"]
    /\ UNCHANGED <<extract_pc, urls, content_chunks>>

\* gather returned: the chunks are collected and returned
ReturnBatch ==
    /\ extract_pc = "gather"
    /\ AllFinished(tasks)
    /\ content_chunks' = Chunks(gathered)
    /\ extract_pc' = "returned"
    /\ UNCHANGED <<urls, tasks, semaphore, fetches, gathered>>

\* what the steps of extract_content_batch leave alone
ExtractOnly ==
    UNCHANGED <<pc, query, top_k, min_score, collection, search_results,
                results, retrieved, scored, error, cause, vm_input,
                vm_output, client, calls, last_exception, agent_vars,
                sources, pair_vars, store_vars>>

NextExtract == \/ CreateTasks /\ ExtractOnly
               \/ \E i \in DOMAIN tasks : Acquire(i) /\ ExtractOnly
               \/ \E i \in DOMAIN tasks : Complete(i) /\ ExtractOnly
               \/ ReturnBatch /\ ExtractOnly

SpecExtract == InitExtract /\ [][NextExtract]_vars

----------------------------------------------------------------------------
(* VectorStorage.store_chunks: the collection is initialised, one point is
   built per chunk, and the points are upserted in batches; client.upsert is
   a blocking call, 'await asyncio.sleep(0.1)' follows every batch *)

\* batch_size = 100
batch_size == 100

\* longest list of chunks of the model: two full batches and one more chunk
MaxChunks == 201

\* the chunks of a list are told apart by their position in the corpus
ChunkLists == {[k \in 1..n |-> k] : n \in 0..MaxChunks}

\* PointStruct(id=uuid4, vector=chunk.embedding, payload={...}) of a chunk
PointStruct(chunk) == [chunk |-> chunk]

\* mutant of Batch: the slice has no upper end
BatchToEnd(ps, start) == SubSeq(ps, start + 1, Len(ps))

\* batch = points[i:i + batch_size]
Batch(ps, start) == SubSeq(ps, start + 1, Min(start + batch_size, Len(ps)))

\* range(0, len(points), batch_size) has an element from start on
InRangeOfLoop(start, ps) == start < Len(ps)

InitStore == /\ store_pc = "start"
             /\ embedded_chunks \in ChunkLists
             /\ points = <<>>
             /\ batch_start = 0
             /\ upserts = <<>>
             /\ slept = 0
             /\ NoExtract
             /\ NoRetrieval

\* self.initialize_collection(): the collection is there or is created;
\* an error of create_collection leaves store_chunks
InitializeCollection ==
    /\ store_pc = "start"
    /\ \E ok \in BOOLEAN :
          store_pc' = IF ok THEN "convert" ELSE "raised"
    /\ UNCHANGED <<embedded_chunks, points, batch_start, upserts, slept>>

\* the loop over embedded_chunks builds the points; the upload loop starts
BuildPoints ==
    /\ store_pc = "convert"
    /\ points' = [k \in DOMAIN embedded_chunks |->
                    PointStruct(embedded_chunks[k])]
    /\ batch_start' = 0
    /\ store_pc' = IF InRangeOfLoop(0, embedded_chunks) THEN "upsert"
                   ELSE "done"
    /\ UNCHANGED <<embedded_chunks, upserts, slept>>

\* self.client.upsert(points=batch) returns, or raises and ends the run
Upsert ==
    /\ store_pc = "upsert"
    /\ \E ok \in BOOLEAN :
          IF ok
          THEN /\ upserts' = Append(upserts, Batch(points, batch_start))
               /\ store_pc' = "sleep"
          ELSE /\ store_pc' = "raised"
               /\ UNCHANGED upserts
    /\ UNCHANGED <<embedded_chunks, points, batch_start, slept>>

\* await asyncio.sleep(0.1) is over: the next batch, or the end
Slept ==
    /\ store_pc = "sleep"
    /\ slept' = slept + 1
    /\ batch_start' = batch_start + batch_size
    /\ store_pc' = IF InRangeOfLoop(batch_start + batch_size, points)
                   THEN "upsert" ELSE "done"
    /\ UNCHANGED <<embedded_chunks, points, upserts>>

\* what the steps of store_chunks leave alone
StoreOnly ==
    UNCHANGED <<pc, query, top_k, min_score, collection, search_results,
                results, retrieved, scored, error, cause, vm_input,
                vm_output, client, calls, last_exception, agent_vars,
                sources, pair_vars, extract_vars>>

NextStore == \/ InitializeCollection /\ StoreOnly
             \/ BuildPoints /\ StoreOnly
             \/ Upsert /\ StoreOnly
             \/ Slept /\ StoreOnly

SpecStore == InitStore /\ [][NextStore]_vars

----------------------------------------------------------------------------
(* Properties *)

Score(ctx) == ctx.score
NonIncreasing(ctxs) ==
    \A i \in 1..(Len(ctxs) - 1) : Score(ctxs[i]) >= Score(ctxs[i + 1])

\* C1: the list retrieve_context returns is non-increasing in score and
\* every element of it has score >= min_score
C1_SortedAboveMinScore ==
    pc = "returned" =>
        /\ NonIncreasing(retrieved)
        /\ \A i \in DOMAIN retrieved : Score(retrieved[i]) >= min_score

\* C1 witness: a returned list of two or more, from a response that was not
\* in score order, with a hit dropped by the min_score filter
C1_Witness ==
    /\ pc = "returned"
    /\ Len(retrieved) >= 2
    /\ Len(results) > Len(retrieved)
    /\ \E i, j \in DOMAIN scored :
          i < j /\ ScoreOf(scored[i].rec) < ScoreOf(scored[j].rec)

\* C2 (as claimed): retrieve_context returns at most top_k elements
C2_AtMostTopK ==
    pc = "returned" => Len(retrieved) <= top_k

\* the exceptions of the collaborators: the embedding call, the index call
CollaboratorFailure == cause \in {"embedding", "index"}

\* the score a hit carries, by the shape of the hit
HitScore(h) ==
    CASE IsTuple(h) /\ Len(h.xs) >= 2 -> h.xs[2]
      [] IsDict(h) /\ "score" \in DOMAIN h.d -> h.d["score"]
      [] h.t = "obj" /\ "score" \in DOMAIN h.a -> h.a["score"]
      [] h.t = "obj" /\ "score_" \in DOMAIN h.a -> h.a["score_"]
      [] h.t = "obj" /\ "similarity" \in DOMAIN h.a -> h.a["similarity"]
      [] OTHER -> Absent

\* a raw score that is a number above 1.0 (the case of C7)
AboveOne(h) ==
    HitScore(h).t \in {"int", "float"}
    /\ (IF HitScore(h).t = "float" THEN HitScore(h).n ELSE 100 * HitScore(h).i)
          > ScoreOne

\* C3 (as claimed, leaving the raw scores above 1.0 of C7 aside): with a
\* valid query and a hit of a supported shape, whatever payload and score
\* the hit carries, retrieval raises only when the embedding call or the
\* index call failed
C3_NeverRaisesOnShape ==
    (pc = "raised" /\ ~AboveOne(collection[1])) => CollaboratorFailure

\* the payload a hit carries, by the shape of the hit
HitPayload(h) ==
    CASE IsTuple(h) /\ Len(h.xs) >= 1 -> h.xs[1]
      [] IsDict(h) /\ "payload" \in DOMAIN h.d -> h.d["payload"]
      [] h.t = "obj" /\ "payload" \in DOMAIN h.a -> h.a["payload"]
      [] OTHER -> Absent

Processed == pc \in {"returned", "raised"} /\ ~CollaboratorFailure

\* C4: every record search produces has a dict payload, and a hit whose raw
\* payload is a string or None yields a record whose payload is {}
C4_PayloadIsDict ==
    /\ \A i \in DOMAIN results : IsDict(results[i].d.payload)
    /\ (Processed /\ HitPayload(collection[1]).t \in {"str", "none"}) =>
          /\ SearchReturned
          /\ Len(results) = 1
          /\ results[1].d.payload = EmptyDict

\* C4 witness: search returned a record for a hit whose payload is a string
C4_Witness ==
    /\ SearchReturned
    /\ HitPayload(collection[1]) = PyStr(SNotADict)
    /\ Len(results) = 1
    /\ results[1].d.payload = EmptyDict

\* the value of a numeric Python value, in hundredths
NumVal(x) == IF x.t = "float" THEN x.n ELSE 100 * x.i

IsSeqScore(raw) == raw.t \in {"list", "tuple"}
HasNumeric(raw) == \E i \in DOMAIN raw.xs : IsNumber(raw.xs[i])
FirstNumeric(raw) ==
    raw.xs[CHOOSE i \in DOMAIN raw.xs :
              IsNumber(raw.xs[i]) /\ \A j \in 1..(i - 1) : ~IsNumber(raw.xs[j])]

\* C5 (as claimed): a tuple or list score holding a number collapses to
\* its first numeric element
C5_FirstNumericElement ==
    \A i \in DOMAIN scored :
        (IsSeqScore(scored[i].raw_score) /\ HasNumeric(scored[i].raw_score))
            => scored[i].s = NumVal(FirstNumeric(scored[i].raw_score))

\* C5 (amended): a tuple or list score collapses to its first element when
\* that element is a number and to 0.0 when it is not; an empty sequence,
\* a dict, a set, None and a non-numeric string collapse to 0.0; a number
\* is kept; the coerced score is always a number
C5_FirstElementIfNumeric ==
    \A i \in DOMAIN scored :
        LET raw == scored[i].raw_score
        IN  /\ scored[i].s \in Int
            /\ (IsSeqScore(raw) /\ raw.xs # <<>> /\ IsNumber(raw.xs[1]))
                  => scored[i].s = NumVal(raw.xs[1])
            /\ (IsSeqScore(raw) /\ raw.xs # <<>> /\ ~IsNumber(raw.xs[1]))
                  => scored[i].s = 0
            /\ (IsSeqScore(raw) /\ raw.xs = <<>>) => scored[i].s = 0
            /\ raw.t \in {"dict", "set", "none"} => scored[i].s = 0
            /\ raw = PyStr(<<"x">>) => scored[i].s = 0
            /\ IsNumber(raw) => scored[i].s = NumVal(raw)

\* C5 witness: a list score whose first element is not a number and whose
\* second is, coerced to 0.0
C5_Witness ==
    /\ SearchReturned
    /\ Len(scored) = 1
    /\ scored[1].raw_score = PyList(<<PyStr(<<"x">>), PyFloat(70)>>)
    /\ scored[1].s = 0

\* C6: the final score is min(s * (1 + 0.2 * m), 1.0) when m > 0 and s when
\* m = 0; Scenario A (s = 0.4, two matched terms) gives 0.56
C6_BoostFormula ==
    /\ \A i \in DOMAIN scored :
          ScoreOf(scored[i].rec) =
              IF scored[i].m > 0
              THEN Min((scored[i].s * (100 + 20 * scored[i].m)) \div 100, 100)
              ELSE scored[i].s
    /\ \A i \in DOMAIN scored :
          (/\ query = QRosArch
           /\ scored[i].raw_payload = PGood
           /\ scored[i].raw_score = PyFloat(40))
          => (scored[i].m = 2 /\ ScoreOf(scored[i].rec) = 56)

\* C6 witness: Scenario A was scored
C6_Witness ==
    /\ SearchReturned
    /\ query = QRosArch
    /\ Len(scored) = 1
    /\ scored[1].raw_payload = PGood
    /\ scored[1].raw_score = PyFloat(40)
    /\ ScoreOf(results[1]) = 56

\* C7 (as claimed): every score in the list search returns is <= 1.0
C7_ScoresAtMostOne ==
    \A i \in DOMAIN results : ScoreOf(results[i]) <= ScoreOne

\* C9 (as claimed): validate_metadata returns a report for every input
C9_NeverRaises ==
    pc = "vm_done" => ~vm_output.raised

MissingError(f) == [msg |-> "Missing required field", field |-> f]
TopLevelFields == {"score", "payload", "url", "title", "content"}

\* C10: in every report, valid is false iff errors is non-empty, and a
\* top-level field is missing iff its 'Missing required field' error is there
C10_ValidIffNoErrors ==
    (pc = "vm_done" /\ ~vm_output.raised) =>
        /\ (vm_output.val.valid = FALSE) <=> (vm_output.val.errors # <<>>)
        /\ \A f \in TopLevelFields :
              (f \notin DOMAIN vm_input.d) <=>
                  (\E i \in DOMAIN vm_output.val.errors :
                        vm_output.val.errors[i] = MissingError(f))

\* C10 witness: a result without url and with a short content gets the
\* error for url, a warning, and valid = false
C10_Witness ==
    /\ pc = "vm_done"
    /\ ~vm_output.raised
    /\ "url" \notin DOMAIN vm_input.d
    /\ \E i \in DOMAIN vm_output.val.errors :
          vm_output.val.errors[i] = MissingError("url")
    /\ vm_output.val.warnings # <<>>
    /\ vm_output.val.valid = FALSE


\* the type contract of the payload fields, as the specification states it
MeetsContract(payload) ==
    /\ \A f \in {"url", "title", "content", "source_document"} :
          f \in DOMAIN payload.d /\ IsStr(payload.d[f])
    /\ "headings" \in DOMAIN payload.d /\ IsStrList(payload.d["headings"])
    /\ "chunk_index" \in DOMAIN payload.d
    /\ IsInt(payload.d["chunk_index"])
    /\ payload.d["chunk_index"].i >= 0
    /\ "metadata" \in DOMAIN payload.d /\ IsDict(payload.d["metadata"])

\* C11 (as claimed): a report on a payload that breaks the type contract of
\* a field (a negative chunk_index and a non-string heading included) has
\* valid = false
C11_TypeContracts ==
    (/\ pc = "vm_done"
     /\ ~vm_output.raised
     /\ "payload" \in DOMAIN vm_input.d
     /\ IsDict(vm_input.d["payload"])
     /\ ~MeetsContract(vm_input.d["payload"]))
        => vm_output.val.valid = FALSE

PayloadMustBeDict == [msg |-> "Payload must be a dictionary", field |-> "payload"]

\* C12 (as claimed): a hit whose raw payload is a string comes back with
\* payload {} and with "Payload must be a dictionary" among the errors of
\* its metadata_validation
C12_StringPayloadReported ==
    \A i \in DOMAIN scored :
        IsStr(scored[i].raw_payload) =>
            /\ scored[i].rec.d.payload = EmptyDict
            /\ scored[i].rec.d.metadata_validation.valid = FALSE
            /\ \E j \in DOMAIN scored[i].rec.d.metadata_validation.errors :
                  scored[i].rec.d.metadata_validation.errors[j]
                      = PayloadMustBeDict


\* the invalid parameters of the claim: a query text that is empty or all
\* whitespace, top_k outside [1,20], min_score outside [0.0,1.0]
BlankText(q) == \A i \in DOMAIN q : q[i] \in Whitespace
InvalidQuery ==
    \/ BlankText(query)
    \/ top_k \notin 1..20
    \/ min_score \notin 0..ScoreOne

\* C13: once the parameter checks ran, ValidationError is the outcome iff
\* the parameters are invalid, and an invalid query never reaches the
\* embedding call or an index-search call
C13_ValidationFirst ==
    /\ pc # "start" => ((error = "ValidationError") <=> InvalidQuery)
    /\ InvalidQuery => calls = <<>>
    /\ error = "ValidationError" => (pc = "raised" /\ calls = <<>>)

\* C13 witness: top_k = 21 with a good query text and min_score is rejected,
\* no call made
C13_Witness ==
    /\ pc = "raised"
    /\ error = "ValidationError"
    /\ query = QRosArch
    /\ top_k = TopKMax + 1
    /\ min_score = 50
    /\ calls = <<>>


\* the index-search call returned and retrieve_context has finished
Finished == pc \in {"returned", "raised"} /\ search_results # PyNone
\* the index returned zero hits
ZeroHits == IterationTarget(search_results).xs = <<>>
\* search returned a list in which every final score is below min_score
AllBelow ==
    /\ SearchReturned
    /\ \A i \in DOMAIN results : ScoreOf(results[i]) < min_score

\* C14: when the index returned zero hits, or every final score is below
\* min_score, search raised nothing and retrieve_context returned the empty
\* list
C14_EmptyIsNotAnError ==
    (Finished /\ (ZeroHits \/ AllBelow)) =>
        /\ pc = "returned"
        /\ error = "none"
        /\ retrieved = <<>>
        /\ ZeroHits => results = <<>>

\* C14 witness: Scenario C, min_score = 0.9 against two hits that score
\* below 0.9
C14_Witness ==
    /\ pc = "returned"
    /\ min_score = 90
    /\ Len(results) = 2
    /\ \A i \in DOMAIN results : ScoreOf(results[i]) < 90
    /\ retrieved = <<>>


InUnitRange(r) == ScoreOf(r) >= 0 /\ ScoreOf(r) <= ScoreOne
Flagged(r) == r.d.metadata_validation.valid = FALSE

\* C15 (as claimed): whatever metadata_validation says of the records search
\* returned, retrieve_context returns every record that passes the min_score
\* filter, flagged ones included, and does not raise (scores outside [0,1],
\* the case of C7, left aside)
C15_InvalidMetadataNotFatal ==
    (SearchReturned /\ \A i \in DOMAIN results : InUnitRange(results[i])) =>
        /\ pc = "returned"
        /\ Len(retrieved) = Len(filtered_results(results, min_score))


PreferenceOrder == <<"search", "search_points", "query_points">>
IsPrefixOf(a, b) == Len(a) <= Len(b) /\ a = SubSeq(b, 1, Len(a))
\* a method failed: it raised, or it left search_results None
Failed(v) == client[v] # "returns"

\* C16: the index-search methods are called in the order search,
\* search_points, query_points, each only after all earlier ones failed and
\* none after one returned; the response used is that of the first method
\* that returns; the index error is raised iff all three failed
C16_FixedFallbackOrder ==
    LET ic == IndexCalls(calls)
    IN  /\ IsPrefixOf(ic, PreferenceOrder)
        /\ \A i \in 1..(Len(ic) - 1) : Failed(ic[i])
        /\ search_results # PyNone <=>
              (ic # <<>> /\ ~Failed(ic[Len(ic)]))
        /\ pc \in {"process", "returned"} => search_results # PyNone
        /\ cause = "index" <=>
              (Len(ic) = 3 /\ \A v \in DOMAIN client : Failed(v))
        /\ cause = "index" => (pc = "raised" /\ error = "RetrievalError")

\* C16 witness: search raised, search_points raised, query_points returned
\* the response the call went on to return
C16_Witness ==
    /\ pc = "returned"
    /\ client["search"] = "AttributeError"
    /\ client["search_points"] = "Exception"
    /\ IndexCalls(calls) = PreferenceOrder
    /\ retrieved # <<>>



\* C17: process_query makes a second retrieve_context call iff the first, at
\* the configured min_score, returned an empty list; the second call has the
\* same query text and top_k and min_score = 0.0; there are at most two
\* calls; and a list retrieve_context returns holds no score below the
\* min_score of that call
C17_ExplicitSecondTier ==
    /\ Len(retrievals) <= 2
    /\ retrievals # <<>> =>
          /\ retrievals[1].min_score = args.min_score
          /\ (Len(retrievals) = 2) <=> (retrievals[1].outcome = "empty")
    /\ Len(retrievals) = 2 =>
          /\ retrievals[2].query = retrievals[1].query
          /\ retrievals[2].top_k = retrievals[1].top_k
          /\ retrievals[2].min_score = 0
    /\ (stage \in {"first", "second"} /\ pc = "returned") =>
          /\ min_score = retrievals[Len(retrievals)].min_score
          /\ \A i \in DOMAIN retrieved : Score(retrieved[i]) >= min_score

\* C17 witness: nothing reached min_score = 0.9, the second call at 0.0
\* found contexts below 0.9 and the request was answered from them
C17_Witness ==
    /\ stage = "done"
    /\ http = 200
    /\ Len(retrievals) = 2
    /\ retrievals[1].min_score = 90
    /\ retrievals[2].outcome = "nonempty"
    /\ contexts # <<>>
    /\ \A i \in DOMAIN contexts : Score(contexts[i]) < 90

\* C18 (as claimed): a request that ends in retrieve_context's
\* ValidationError is answered with a 4xx status, after one retrieval call
C18_ValidationErrorIsClientError ==
    (stage = "done" /\ error = "ValidationError") =>
        /\ http \in 400..499
        /\ Len(retrievals) = 1


\* the claimed value, cross-multiplied: with S the sum of the scores in
\* hundredths and n the number of contexts,
\*   confidence = (0.6 * min(2S, 100n) / 100n) + (0.4 * min(n, 5) / 5)
\*              = (3 * min(2S, 100n) + 40n * min(n, 5)) / 500n
ClaimedConfidence(c, ctxs) ==
    LET n == Len(ctxs)
        S == SumScores(ctxs)
    IN  c * 500 * n
          = ConfOne * (3 * Min(2 * S, 100 * n) + 40 * n * Min(n, 5))

\* b has no higher an average score and no more contexts than a
NoBetter(b, a) ==
    /\ Len(b) <= Len(a)
    /\ b # <<>> => SumScores(b) * Len(a) <= SumScores(a) * Len(b)

CollectionExists == client["get_collection"] = "returns"
SampleSearchSucceeds == CollectionExists /\ SampleSearchReturns(client)

\* C20 (as claimed): qdrant is 'connected' iff the collection exists,
\* retrieval_pipeline is 'operational' iff the sample search succeeds, and
\* status is 'healthy' iff both
C20_HealthReportsFacts ==
    pc = "health_done" =>
        /\ (health.services.qdrant = "connected") <=> CollectionExists
        /\ (health.services.retrieval_pipeline = "operational")
              <=> SampleSearchSucceeds
        /\ (health.status = "healthy")
              <=> (CollectionExists /\ SampleSearchSucceeds)


\* what a retrieve_context(q, k, ms) call can end with when it runs alone
\* against the collection and the client: the error, what raised, and the
\* list returned
AloneOutcomes(q, k, ms) ==
    IF ~ValidParams(q, k, ms)
    THEN {[error |-> "ValidationError", cause |-> "none", retrieved |-> <<>>]}
    ELSE {[error |-> "RetrievalError", cause |-> "embedding",
           retrieved |-> <<>>]}
         \cup
         (IF \E v \in DOMAIN client : client[v] = "returns"
          THEN {[error |-> o.error, cause |-> o.cause,
                 retrieved |-> o.retrieved] :
                   o \in {retrieve_outcome(
                            search_outcome(q, PyList(IndexHits(collection, k))),
                            ms)}}
          ELSE {[error |-> "RetrievalError", cause |-> "index",
                 retrieved |-> <<>>]})

EndsAsAlone(frame, call) ==
    Done(frame) =>
        [error |-> frame.error, cause |-> frame.cause,
         retrieved |-> frame.retrieved]
            \in AloneOutcomes(call[1], call[2], call[3])

\* C21: of two retrieve_context calls interleaved at the embedding call and
\* at the index-search calls, each ends as the call with its arguments can
\* end when run alone: with the same error, or returning the same list
C21_NoInterference ==
    other # NoOther =>
        /\ EndsAsAlone(Locals, issued.running)
        /\ EndsAsAlone(other, issued.suspended)

\* C21 witness: against a collection of three hits, the "ros architecture"
\* call with top_k 1 returned its two boosted contexts and the "what gait"
\* call with top_k 2 and min_score 0.9 returned one context of three hits
C21_Witness ==
    /\ other # NoOther
    /\ issued.running = <<QRosArch, 1, 0>>
    /\ issued.suspended = <<QGait, 2, 90>>
    /\ pc = "returned" /\ other.pc = "returned"
    /\ Len(collection) = 3
    /\ Len(retrieved) = 2
    /\ Score(retrieved[1]) = 100
    /\ Len(other.retrieved) = 1
    /\ Len(other.results) = 3


\* C22: at most 10 extract_content calls are in progress at any moment, no
\* URL is fetched twice, and when extract_content_batch returns every URL
\* of the list has been fetched exactly once and every fetch has finished
C22_BoundedFetches ==
    /\ Cardinality(InProgress) <= 10
    /\ extract_pc \in {"gather", "returned"} =>
          semaphore + Cardinality(InProgress) = 10
    /\ \A i \in DOMAIN fetches : fetches[i] <= 1
    /\ extract_pc = "returned" =>
          /\ InProgress = {}
          /\ \A i \in DOMAIN urls : fetches[i] = 1
          /\ Len(content_chunks) <= Len(urls)

\* C22 witness: a batch of 11 URLs returned, two pages of it without a chunk
C22_Witness ==
    /\ extract_pc = "returned"
    /\ Len(urls) = 11
    /\ \A i \in DOMAIN urls : fetches[i] = 1
    /\ Len(content_chunks) = 9


\* the distinct query terms found in the content or the title of a hit
DistinctMatches(q, payload) ==
    {t \in {query_terms(q)[i] : i \in DOMAIN query_terms(q)} :
        \/ Contains(Lower(DictGet(payload, "content", EmptyStr).s), t)
        \/ Contains(Lower(DictGet(payload, "title", EmptyStr).s), t)}

\* C23 (as claimed): matched_terms of a hit is the number of distinct query
\* terms found in its content or title, so "ros ros" counts once
C23_DistinctTerms ==
    \A i \in DOMAIN scored :
        scored[i].m
            = Cardinality(DistinctMatches(query, scored[i].rec.d.payload))

\* C24 (as claimed): every term search matches with is longer than two
\* characters, so none is empty or found in every content
C24_TermsLongerThanTwo ==
    SearchReturned =>
        \A i \in DOMAIN query_terms(query) :
            Len(query_terms(query)[i]) > 2

\* the sort as the claim states it: a rearrangement of the records in
\* descending score, records of equal score in response order
StableDescending(sorted, recs) ==
    /\ Len(sorted) = Len(recs)
    /\ \E perm \in Permutations(DOMAIN recs) :
          /\ \A i \in DOMAIN recs : sorted[i] = recs[perm[i]]
          /\ \A i, j \in DOMAIN recs :
                i < j =>
                    \/ ScoreOf(sorted[i]) > ScoreOf(sorted[j])
                    \/ /\ ScoreOf(sorted[i]) = ScoreOf(sorted[j])
                       /\ perm[i] < perm[j]

\* C25: the list search returns is the records in descending score, and
\* records of equal final score keep the order the index returned them in
C25_StableSort ==
    SearchReturned => StableDescending(results, Records(scored))

\* C25 witness: the index returned a hit ending at 0.56 and then two
\* different hits both ending at 1.0; the two come first, in their order
C25_Witness ==
    /\ SearchReturned
    /\ Len(scored) = 3
    /\ ScoreOf(scored[1].rec) = 56
    /\ ScoreOf(scored[2].rec) = 100
    /\ ScoreOf(scored[3].rec) = 100
    /\ scored[2].rec # scored[3].rec
    /\ results = <<scored[2].rec, scored[3].rec, scored[1].rec>>


\* the loop of search went over exactly these hits, in this order
Iterated(hits) ==
    /\ Len(scored) = Len(hits)
    /\ \A i \in DOMAIN scored :
          /\ scored[i].raw_payload = HitPayload(hits[i])
          /\ scored[i].raw_score = HitScore(hits[i])

IsIterable(x) == IsList(x) \/ IsTuple(x)

\* the call failed on the shape of the response
ShapeError ==
    /\ pc = "raised"
    /\ error = "RetrievalError"
    /\ cause = "TypeError"
    /\ retrieved = <<>>

\* C26: search iterates response.results when the response has a results
\* attribute, else response.points when it has a points attribute, else the
\* response itself; when what is so selected cannot be iterated the call
\* fails and returns no list
C26_IterationTarget ==
    Finished =>
        LET r == search_results
        IN  /\ (HasAttr(r, "results") /\ IsIterable(r.a["results"]))
                  => Iterated(r.a["results"].xs)
            /\ (HasAttr(r, "results") /\ ~IsIterable(r.a["results"]))
                  => ShapeError
            /\ (~HasAttr(r, "results") /\ HasAttr(r, "points"))
                  => IF IsIterable(r.a["points"])
                     THEN Iterated(r.a["points"].xs) ELSE ShapeError
            /\ (~HasAttr(r, "results") /\ ~HasAttr(r, "points"))
                  => IF IsIterable(r) THEN Iterated(r.xs) ELSE ShapeError

\* C26 witness: a response with hits under results and an empty points was
\* iterated over its results, and the call returned them
C26_Witness ==
    /\ pc = "returned"
    /\ HasAttr(search_results, "results")
    /\ HasAttr(search_results, "points")
    /\ Len(search_results.a["results"].xs) = 2
    /\ search_results.a["points"].xs = <<>>
    /\ Len(retrieved) = 2


\* C27: when the embedding call fails, retrieve_context raises
\* RetrievalError at once: the failed call is the only embedding call of the
\* request and no index-search call is made
C27_EmbeddingFailure ==
    cause = "embedding" =>
        /\ pc = "raised"
        /\ error = "RetrievalError"
        /\ calls = <<"embed">>
        /\ search_results = PyNone
        /\ retrieved = <<>>

\* C27 witness: the embedding call failed for a valid query against a
\* working index that holds hits
C27_Witness ==
    /\ cause = "embedding"
    /\ pc = "raised"
    /\ error = "RetrievalError"
    /\ query = QRosArch
    /\ top_k = 1
    /\ client = AllReturn
    /\ Len(collection) = 2
    /\ calls = <<"embed">>


RECURSIVE Flatten(_)
Flatten(batches) ==
    IF batches = <<>> THEN <<>> ELSE Head(batches) \o Flatten(Tail(batches))

Occurrences(x, xs) == Cardinality({j \in DOMAIN xs : xs[j] = x})

\* C28: the batches upserted are consecutive slices of the points in input
\* order, each of at most 100 points; a batch is upserted only when the
\* delay after the batch before it has elapsed; and when store_chunks ends
\* without an error every chunk has been upserted exactly once
C28_SequentialBatches ==
    /\ \A b \in DOMAIN upserts :
          Len(upserts[b]) >= 1 /\ Len(upserts[b]) <= 100
    /\ IsPrefixOf(Flatten(upserts), points)
    /\ Len(upserts) <= slept + 1
    /\ store_pc = "upsert" => slept = Len(upserts)
    /\ store_pc = "done" =>
          /\ Len(points) = Len(embedded_chunks)
          /\ slept = Len(upserts)
          /\ \A k \in DOMAIN embedded_chunks :
                Occurrences(PointStruct(embedded_chunks[k]),
                            Flatten(upserts)) = 1

\* C28 witness: 201 chunks were stored in batches of 100, 100 and 1, with
\* three delays
C28_Witness ==
    /\ store_pc = "done"
    /\ Len(embedded_chunks) = 201
    /\ Len(upserts) = 3
    /\ Len(upserts[1]) = 100
    /\ Len(upserts[2]) = 100
    /\ upserts[3] = <<PointStruct(201)>>
    /\ slept = 3


\* the value the client supplied, or the default when it supplied none
Supplied(x, default) == IF x = PyNone THEN default ELSE Number(x)

\* C29 (as claimed): for an accepted request, process_query gets the top_k,
\* min_score and temperature the client supplied, 0.0 included, and the
\* defaults 5, 0.3 and 0.7 only for the parameters the client left out
C29_ParametersForwarded ==
    args # NoArgs =>
        /\ args.query_text = request.query
        /\ args.top_k = Supplied(request.top_k, 5)
        /\ args.min_score = Supplied(request.min_score, 30)
        /\ args.temperature = Supplied(request.temperature, 70)

\* an AgentResponse was returned
Answered == stage = "done" /\ http = 200
\* it came from the second call, at min_score = 0.0
FromSecondTier ==
    Len(retrievals) = 2 /\ retrievals[2].outcome = "nonempty"
\* neither call found a context
NothingFound == Len(retrievals) = 2 /\ retrievals[2].outcome = "empty"

====
